---- MODULE Spec2Model ----
(***************************************************************************)
(* The GPU processing service of Second-Sight-RF-Tools                     *)
(* (server/python/gpu_service.py over server/python/gpu_processor.py):     *)
(* the request loop of GPUService.run, the dispatcher handle_request, the  *)
(* statistics, the periodic cleanup task and the shutdown coroutine, as    *)
(* tasks of one asyncio event loop.  A task runs without interruption from *)
(* one await to the next; the other tasks move only while the service loop *)
(* is suspended at an await.                                               *)
(***************************************************************************)
EXTENDS Integers, Sequences, FiniteSets, TLC

VARIABLES
    backend,        \* GPU_AVAILABLE of gpu_processor: "gpu" or "cpu"
    running,        \* GPUService.running
    stats,          \* GPUServiceStats counters and last_request_time
    cachedWindows,  \* keys of GPUSignalProcessor._cached_windows
    socket,         \* GPUService._socket: "none", "open", "closed"
    context,        \* GPUService._context: "none", "live", "terminated"
    cleanupTask,    \* GPUService._cleanup_task, the _periodic_cleanup task
    pcRun,          \* position of the task that executes GPUService.run
    cur,            \* the message received by the current loop iteration
    resp,           \* the response built for it
    lastKernel,     \* kernel of the processor invoked by the last dispatch
    raised,         \* exception raised while the current message is handled
    delivered,      \* the response to the current message was sent
    event,          \* what the last step of the run task did
    attempts,       \* send calls made for the current message
    msgCount,       \* messages received so far
    sdTask,         \* the shutdown tasks created by the signal handler
    sigInKernel,    \* a signal arrived while a kernel ran for this message
    procCall,       \* the last call made on the processor by a direct caller
    poolN,          \* CUDAStreamPool.num_streams, the length of streams
    poolIdx,        \* CUDAStreamPool._current_idx
    poolLock,       \* CUDAStreamPool._lock: its holder, 0 when free
    thPc,           \* position of each thread inside get_stream
    thStream,       \* the local variable stream of each thread
    handed,         \* indices of the streams read, in the order of the reads
    calls,          \* get_stream calls begun
    est,            \* the estimator object exercised by the caller
    modTag,         \* the modulation argument of DemodulationPipeline
    block,          \* the input block given to the estimator
    pcDemod,        \* stages of demodulate completed in the current call
    loopSt,         \* loop state the estimator objects keep between calls
    stage,          \* the values the stages of demodulate have produced
    trace,          \* the stages run by the current call of demodulate; the
                    \* sample cursor of a timing loop called on its own
    runs            \* the outputs of the calls completed on the object

vars == <<backend, running, stats, cachedWindows, socket, context, cleanupTask,
          pcRun, cur, resp, lastKernel, raised, delivered, event, attempts,
          msgCount, sdTask, sigInKernel, procCall, poolN, poolIdx,
          poolLock, thPc, thStream, handed, calls, est, modTag, block,
          pcDemod, loopSt, stage, trace, runs>>

\* Bounds of the model.
MaxRequests == 2
MaxSignals == 1
PoolTotal == 5
MaxStreams == 3
MaxThreads == 2
MaxCalls == 4
MaxSamples == 8
MaxRegions == 3

-----------------------------------------------------------------------------
(* Requests *)

Commands ==
    {"ping", "psd", "fam", "wvd", "cwd", "rf_dna", "cumulants",
     "memory", "cleanup", "stats"}

IQCommands == {"psd", "fam", "wvd", "cwd", "rf_dna", "cumulants"}

\* Values of the 'command' field of a JSON object: the ten commands, an
\* upper-case spelling, an unknown name, a missing field, a non-string value.
Absent == "<absent>"
NonString == "<non-string>"
RawCommands == Commands \cup {"PING", "bogus", Absent, NonString}

\* iq_real / iq_imag of a request: both missing, one missing, both present
\* but not convertible to float32 arrays of one length, both present and good.
IqShapes == {"none", "real_only", "imag_only", "bad", "good"}

\* A single missing array is told from two missing arrays only for the
\* commands that need the block.
\* shape: bytes that are not UTF-8, text that is not JSON, a JSON value
\* that is not an object, a JSON object.  fault: the processor call made
\* for the request raises (bad parameters, degenerate data, CUDA error).
NoMsg == [shape |-> "nomsg", command |-> Absent, iq |-> "none", fault |-> FALSE]

\* str.lower() on the modelled command strings.
Lower(s) ==
    CASE s = "PING" -> "ping"
      [] OTHER -> s

\* The requests whose handling calls the processor: get_memory_info for
\* ping and memory, cleanup, and a kernel when the I/Q block was built.
CallsProcessor(c, q) ==
    /\ q # "bad"
    /\ \/ Lower(c) \in {"ping", "memory", "cleanup"}
       \/ Lower(c) \in IQCommands /\ q = "good"

Messages ==
    {[shape |-> s, command |-> Absent, iq |-> "none", fault |-> FALSE] :
        s \in {"badutf8", "badjson", "nondict"}}
    \cup
    {m \in [shape : {"dict"}, command : RawCommands, iq : IqShapes,
            fault : {FALSE}] :
        m.iq \in {"real_only", "imag_only"} => Lower(m.command) \in IQCommands}
    \cup
    {[shape |-> "dict", command |-> c, iq |-> q, fault |-> TRUE] :
        c \in {x \in RawCommands : \E y \in IqShapes : CallsProcessor(x, y)},
        q \in {y \in IqShapes : \E x \in RawCommands : CallsProcessor(x, y)}}

-----------------------------------------------------------------------------
(* GPUServiceStats *)

InitStats == [total |-> 0, success |-> 0, failed |-> 0, bytes |-> 0, last |-> 0]

\* As RecordRequest, with requests_total counting the successes only.
RecordRequestSuccessOnly(st, ok, nbytes, now) ==
    [total   |-> IF ok THEN st.total + 1 ELSE st.total,
     success |-> IF ok THEN st.success + 1 ELSE st.success,
     failed  |-> IF ok THEN st.failed ELSE st.failed + 1,
     bytes   |-> st.bytes + nbytes,
     last    |-> now]

\* record_request(success, bytes_processed); now stands for time.time().
RecordRequest(st, ok, nbytes, now) ==
    [total   |-> st.total + 1,
     success |-> IF ok THEN st.success + 1 ELSE st.success,
     failed  |-> IF ok THEN st.failed ELSE st.failed + 1,
     bytes   |-> st.bytes + nbytes,
     last    |-> now]

\* to_dict(): the counters as they are when it is called.
StatsDict(st) ==
    [requests_total |-> st.total, requests_success |-> st.success,
     requests_failed |-> st.failed, bytes_processed |-> st.bytes,
     uptime_seconds |-> "uptime", requests_per_second |-> "rate",
     last_request_ago |-> IF st.last = 0 THEN "None" ELSE "ago"]

-----------------------------------------------------------------------------
(* GPUSignalProcessor *)

\* Number of streams the processor gives its CUDAStreamPool.
NumStreams(be) == IF be = "gpu" THEN 4 ELSE 0

NoExc == [type |-> "", msg |-> ""]

\* stream_context(): get_stream() indexes streams[_current_idx] with
\* _current_idx = 0; on an empty list of streams that raises IndexError.
StreamContext(be) ==
    IF NumStreams(be) = 0
    THEN [type |-> "IndexError", msg |-> "list index out of range"]
    ELSE NoExc

\* Window a kernel asks _get_window for with the service's defaults.
KernelWindow(cmd) ==
    CASE cmd = "psd" -> {"hann"}
      [] cmd = "fam" -> {"hamming"}
      [] OTHER -> {}

KernelResult(cmd) ==
    CASE cmd = "psd" ->
            [psd |-> "list", fft_size |-> "param", num_bins |-> "len"]
      [] cmd = "fam" ->
            [scf_magnitude |-> "list", spectral_freqs |-> "list",
             cyclic_freqs |-> "list", cyclic_profile |-> "list",
             shape |-> "list"]
      [] cmd = "wvd" ->
            [wvd |-> "list", time_axis |-> "list", freq_axis |-> "list",
             shape |-> "list"]
      [] cmd = "cwd" ->
            [cwd |-> "list", time_axis |-> "list", freq_axis |-> "list",
             shape |-> "list"]
      [] cmd = "rf_dna" ->
            [features |-> "list", feature_count |-> "int", regions |-> "param"]
      [] OTHER ->
            [cum4 |-> "float", cum6 |-> "float"]

\* One kernel of the processor (psd_welch .. higher_order_cumulants): it
\* enters stream_context first, raises on a fault of its input, and caches
\* the window it used.
Kernel(be, cmd, fault, cache) ==
    IF StreamContext(be) # NoExc
    THEN [exc |-> StreamContext(be), cache |-> cache, result |-> <<>>]
    ELSE IF fault
    THEN [exc |-> [type |-> "ValueError", msg |-> "kernel"], cache |-> cache,
          result |-> <<>>]
    ELSE [exc |-> NoExc, cache |-> cache \cup KernelWindow(cmd),
          result |-> KernelResult(cmd)]

\* get_memory_info(): the pool counters on the GPU, zeros on the CPU.
GetMemoryInfo(be, fault, used, total) ==
    IF be = "gpu"
    THEN IF fault
         THEN [exc |-> [type |-> "CUDARuntimeError", msg |-> "pool"],
               result |-> <<>>]
         ELSE [exc |-> NoExc,
               result |-> [gpu_available |-> TRUE, device_id |-> 0,
                           used_bytes |-> used, total_bytes |-> total,
                           pinned_bytes |-> "blocks", free_blocks |-> "blocks"]]
    ELSE [exc |-> NoExc,
          result |-> [gpu_available |-> FALSE, device_id |-> -1,
                      used_bytes |-> 0, total_bytes |-> 0]]

\* cleanup(): on the GPU it clears the window cache, then frees the pools
\* (which is where it can raise); on the CPU it does nothing.
Cleanup(be, fault, cache) ==
    IF be = "gpu"
    THEN [exc |-> IF fault
                  THEN [type |-> "CUDARuntimeError", msg |-> "free"]
                  ELSE NoExc,
          cache |-> {}]
    ELSE [exc |-> NoExc, cache |-> cache]

\* What the memory pool can report: used <= total.
MemReadings(be) ==
    IF be = "gpu"
    THEN {<<0, 0>>} \cup {<<u, PoolTotal>> : u \in 0..PoolTotal}
    ELSE {<<0, 0>>}

-----------------------------------------------------------------------------
(* GPUService.handle_request *)

Elapsed == "elapsed"

\* result['processing_time_ms'] = ...: sets the key, replacing any old value.
WithTime(result) == ("processing_time_ms" :> Elapsed) @@ result

\* The text of an error field, as the list of the pieces it is formatted from.
UnknownText(cmd) == <<"Unknown command: ", cmd>>
MissingText == <<"Missing IQ data">>
ErrorMsg(e) == <<e.type, ": ", e.msg>>
StrOf(e) == <<e.msg>>

\* cmd = request.get('command', '').lower() for a string or missing command.
CmdOf(req) == IF req.command = Absent THEN "" ELSE Lower(req.command)

\* As HasIq, with the test 'iq_real' in request alone.
HasIqRealOnly(req) == req.iq \in {"real_only", "bad", "good"}

\* iq_samples is built only when both iq_real and iq_imag are in the request.
HasIq(req) == req.iq \in {"bad", "good"}

\* iq_samples.nbytes of the one-sample block of a good request (complex64).
NBytes(req) == IF req.iq = "good" THEN 8 ELSE 0

\* The routing chain of handle_request for a command that is neither
\* unknown nor refused: the handler's result, or the exception it raised.
RouteCall(be, cmd, req, st, cache, mem) ==
    CASE cmd = "ping" ->
            LET mi == GetMemoryInfo(be, req.fault, mem[1], mem[2])
            IN  [exc |-> mi.exc, cache |-> cache, kernel |-> "none",
                 result |-> [status |-> "ok",
                             gpu_available |-> (be = "gpu"),
                             gpu_memory_used_mb |-> "mb",
                             stats |-> StatsDict(st)]]
      [] cmd \in IQCommands ->
            IF ~HasIq(req)
            THEN [exc |-> NoExc, cache |-> cache, kernel |-> "none",
                  result |-> [error |-> MissingText]]
            ELSE LET k == Kernel(be, cmd, req.fault, cache)
                 IN  [exc |-> k.exc, cache |-> k.cache, kernel |-> cmd,
                      result |-> k.result]
      [] cmd = "memory" ->
            LET mi == GetMemoryInfo(be, req.fault, mem[1], mem[2])
            IN  [exc |-> mi.exc, cache |-> cache, kernel |-> "none",
                 result |-> mi.result]
      [] cmd = "cleanup" ->
            LET c == Cleanup(be, req.fault, cache)
            IN  [exc |-> c.exc, cache |-> c.cache, kernel |-> "none",
                 result |-> [status |-> "ok", message |-> "GPU memory cleared"]]
      [] OTHER ->
            [exc |-> NoExc, cache |-> cache, kernel |-> "none",
             result |-> StatsDict(st)]

\* The except clause of handle_request.
Caught(e, cmd, st, cache, kernel, now) ==
    [escaped |-> NoExc,
     exc     |-> e,
     resp    |-> [error |-> ErrorMsg(e), command |-> cmd,
                  processing_time_ms |-> Elapsed],
     stats   |-> RecordRequest(st, FALSE, 0, now),
     cache   |-> cache,
     kernel  |-> kernel]

\* handle_request(request): the response it returns, or the exception that
\* escapes it, with the statistics and the window cache it leaves.
HandleRequest(be, req, st, cache, mem, now) ==
    IF req.shape # "dict"
    THEN [escaped |-> [type |-> "AttributeError", msg |-> "no attribute 'get'"],
          exc |-> [type |-> "AttributeError", msg |-> "no attribute 'get'"],
          resp |-> <<>>, stats |-> st, cache |-> cache, kernel |-> "none"]
    ELSE IF req.command = NonString
    THEN [escaped |-> [type |-> "AttributeError", msg |-> "no attribute 'lower'"],
          exc |-> [type |-> "AttributeError", msg |-> "no attribute 'lower'"],
          resp |-> <<>>, stats |-> st, cache |-> cache, kernel |-> "none"]
    ELSE
    LET cmd == CmdOf(req)
    IN  IF req.iq = "bad"
        THEN Caught([type |-> "ValueError", msg |-> "iq"], cmd, st, cache,
                    "none", now)
        ELSE IF cmd \notin Commands
        THEN [escaped |-> NoExc,
              exc     |-> NoExc,
              resp    |-> [error |-> UnknownText(cmd)],
              stats   |-> RecordRequest(st, FALSE, 0, now),
              cache   |-> cache,
              kernel  |-> "none"]
        ELSE LET r == RouteCall(be, cmd, req, st, cache, mem)
             IN  IF r.exc # NoExc
                 THEN Caught(r.exc, cmd, st, r.cache, r.kernel, now)
                 ELSE [escaped |-> NoExc,
                       exc     |-> NoExc,
                       resp    |-> WithTime(r.result),
                       stats   |-> RecordRequest(st, TRUE, NBytes(req), now),
                       cache   |-> r.cache,
                       kernel  |-> r.kernel]

-----------------------------------------------------------------------------
(* The tasks of the event loop *)

NoResp == [none |-> TRUE]

\* The variables of the components taken alone (the processor used directly,
\* the stream pool, the estimators); the service leaves them as they start.
poolVars == <<poolN, poolIdx, poolLock, thPc, thStream, handed, calls>>
estVars == <<est, modTag, block, pcDemod, loopSt, stage, trace, runs>>
unitVars == <<procCall, poolVars, estVars>>
NoCall == [op |-> "none"]
Threads == 1..MaxThreads
NoStream == -1

\* No direct caller of the processor, no thread in the stream pool.
ProcIdle == procCall = NoCall
PoolIdle ==
    /\ poolN = 0
    /\ poolIdx = 0
    /\ poolLock = 0
    /\ thPc = [t \in Threads |-> "idle"]
    /\ thStream = [t \in Threads |-> NoStream]
    /\ handed = <<>>
    /\ calls = 0

\* No estimator object built.
NoStage ==
    [cfo |-> 0, corrected |-> <<>>, filtered |-> <<>>,
     snr |-> [none |-> TRUE], mode |-> <<>>, carrier |-> <<>>,
     final_phase |-> 0,
     final_freq |-> 0, symbols |-> <<>>, timing_error |-> <<>>,
     decisions |-> <<>>, decision_indices |-> <<>>,
     evm |-> [none |-> TRUE]]
FreshLoops == [phase |-> 0, freq |-> 0, adj |-> 0]
EstIdle ==
    /\ est = "none"
    /\ modTag = <<>>
    /\ block = <<>>
    /\ pcDemod = 0
    /\ loopSt = FreshLoops
    /\ stage = NoStage
    /\ trace = <<>>
    /\ runs = <<>>
UnitIdle == ProcIdle /\ PoolIdle /\ EstIdle

SvcInit ==
    /\ backend \in {"gpu", "cpu"}
    /\ running = FALSE
    /\ stats = InitStats
    /\ cachedWindows = {}
    /\ socket = "none"
    /\ context = "none"
    /\ cleanupTask = "none"
    /\ pcRun = "init"
    /\ cur = NoMsg
    /\ resp = NoResp
    /\ lastKernel = "none"
    /\ raised = NoExc
    /\ delivered = FALSE
    /\ event = "init"
    /\ attempts = 0
    /\ msgCount = 0
    /\ sdTask = [i \in 1..MaxSignals |-> "none"]
    /\ sigInKernel = FALSE

Init == SvcInit /\ UnitIdle

\* A task that has finished, by cancellation, by an exception or by return.
TaskDone(t) == t \in {"cancelled", "failed", "finished"}

\* Task.cancel(): a sleeping task gets CancelledError at its next step.
Cancel(t) == IF t = "sleeping" THEN "cancelling" ELSE t

\* The run task is suspended at an await (recv, send_json, or the await of a
\* cleanup task that has not finished); only then do the other tasks run.
Suspended ==
    \/ pcRun \in {"recv", "send", "errsend"}
    \/ pcRun = "sd_await" /\ ~TaskDone(cleanupTask)

procVars == <<backend, cachedWindows>>
reqVars == <<cur, resp, lastKernel, raised, delivered, attempts, msgCount,
             sigInKernel>>
sockVars == <<socket, context>>

-----------------------------------------------------------------------------
(* GPUService.run *)

\* run() up to the loop: context, socket, bind, running, the cleanup task.
RunStart ==
    /\ pcRun = "init"
    /\ context' = "live"
    /\ socket' = "open"
    /\ \E bound \in BOOLEAN :
          IF bound
          THEN /\ running' = TRUE
               /\ cleanupTask' = "sleeping"
               /\ pcRun' = "loop"
               /\ event' = "start"
          ELSE /\ pcRun' = "done"
               /\ event' = "bind_failed"
               /\ UNCHANGED <<running, cleanupTask>>
    /\ UNCHANGED <<stats, procVars, reqVars, sdTask, unitVars>>

\* while self.running:
LoopHead ==
    /\ pcRun = "loop"
    /\ IF running
       THEN pcRun' = "recv" /\ event' = "loop"
       ELSE pcRun' = "sd_start" /\ event' = "loop_exit"
    /\ cur' = NoMsg
    /\ resp' = NoResp
    /\ raised' = NoExc
    /\ lastKernel' = "none"
    /\ delivered' = FALSE
    /\ sigInKernel' = FALSE
    /\ UNCHANGED <<backend, running, stats, cachedWindows, socket, context,
                   cleanupTask, attempts, msgCount, sdTask, unitVars>>

\* message_bytes = await self._socket.recv() returns a message.
RecvMsg ==
    /\ pcRun = "recv"
    /\ socket = "open"
    /\ msgCount < MaxRequests
    /\ \E m \in Messages :
          /\ m.fault => backend = "gpu" /\ CallsProcessor(m.command, m.iq)
          /\ cur' = m
    /\ msgCount' = msgCount + 1
    /\ attempts' = 0
    /\ pcRun' = "parse"
    /\ event' = "recv_msg"
    /\ UNCHANGED <<backend, running, stats, cachedWindows, socket, context,
                   cleanupTask, resp, lastKernel, raised, delivered, sdTask,
                   sigInKernel, unitVars>>

\* As RecvTimeout, with break in place of continue.
RecvTimeoutBreaks ==
    /\ pcRun = "recv"
    /\ socket = "open"
    /\ pcRun' = "sd_start"
    /\ event' = "recv_timeout"
    /\ UNCHANGED <<running, stats, procVars, sockVars, cleanupTask, reqVars,
                   sdTask, unitVars>>

\* recv() raises zmq.Again after RCVTIMEO: continue.
RecvTimeout ==
    /\ pcRun = "recv"
    /\ socket = "open"
    /\ pcRun' = "loop"
    /\ event' = "recv_timeout"
    /\ UNCHANGED <<running, stats, procVars, sockVars, cleanupTask, reqVars,
                   sdTask, unitVars>>

\* recv() raises another zmq.ZMQError: break.
RecvZMQError ==
    /\ pcRun = "recv"
    /\ pcRun' = "sd_start"
    /\ event' = "recv_zmqerror"
    /\ UNCHANGED <<running, stats, procVars, sockVars, cleanupTask, reqVars,
                   sdTask, unitVars>>

\* The pending recv() is cancelled by the close of the socket: break.
RecvCancelled ==
    /\ pcRun = "recv"
    /\ socket = "closed"
    /\ pcRun' = "sd_start"
    /\ event' = "recv_cancelled"
    /\ UNCHANGED <<running, stats, procVars, sockVars, cleanupTask, reqVars,
                   sdTask, unitVars>>

\* json.loads(message_bytes.decode('utf-8')): the exception it raises.
JsonLoads(m) ==
    CASE m.shape = "badutf8" ->
            [type |-> "UnicodeDecodeError", msg |-> "codec can't decode"]
      [] m.shape = "badjson" ->
            [type |-> "JSONDecodeError", msg |-> "Expecting value"]
      [] OTHER -> NoExc

\* The parse step of the loop body and its two except clauses.
Parse ==
    /\ pcRun = "parse"
    /\ LET e == JsonLoads(cur)
       IN  CASE e.type = "JSONDecodeError" ->
                  /\ resp' = [error |-> <<"Invalid JSON: ", e.msg>>]
                  /\ raised' = e
                  /\ attempts' = attempts + 1
                  /\ pcRun' = "send"
                  /\ event' = "parse_invalid"
             [] e.type = "UnicodeDecodeError" ->
                  /\ resp' = [error |-> StrOf(e)]
                  /\ raised' = e
                  /\ attempts' = attempts + 1
                  /\ pcRun' = "errsend"
                  /\ event' = "parse_raised"
             [] OTHER ->
                  /\ pcRun' = "dispatch"
                  /\ event' = "parsed"
                  /\ UNCHANGED <<resp, raised, attempts>>
    /\ UNCHANGED <<running, stats, procVars, sockVars, cleanupTask, cur,
                   lastKernel, delivered, msgCount, sdTask, sigInKernel,
                   unitVars>>

\* response = await self.handle_request(request), then the call of
\* send_json; an exception that escapes goes to 'except Exception'.
Dispatch ==
    /\ pcRun = "dispatch"
    /\ \E mem \in MemReadings(backend) :
          LET h == HandleRequest(backend, cur, stats, cachedWindows, mem,
                                 msgCount)
          IN  /\ stats' = h.stats
              /\ cachedWindows' = h.cache
              /\ lastKernel' = h.kernel
              /\ raised' = h.exc
              /\ IF h.escaped # NoExc
                 THEN /\ resp' = [error |-> StrOf(h.escaped)]
                      /\ pcRun' = "errsend"
                      /\ event' = "dispatch_raised"
                 ELSE /\ resp' = h.resp
                      /\ pcRun' = "send"
                      /\ event' = "dispatched"
    /\ attempts' = attempts + 1
    /\ UNCHANGED <<backend, running, sockVars, cleanupTask, cur, delivered,
                   msgCount, sdTask, sigInKernel, unitVars>>

\* await self._socket.send_json(response) completes.
SendOk ==
    /\ pcRun = "send"
    /\ socket = "open"
    /\ pcRun' = "loop"
    /\ event' = "send_ok"
    /\ delivered' = TRUE
    /\ UNCHANGED <<running, stats, procVars, sockVars, cleanupTask, cur, resp,
                   lastKernel, raised, attempts, msgCount, sdTask,
                   sigInKernel, unitVars>>

\* As SendTimeout, with zmq.Again falling to 'except Exception', which
\* sends an error response for the same message.
SendTimeoutResends ==
    /\ pcRun = "send"
    /\ socket = "open"
    /\ pcRun' = "errsend"
    /\ event' = "send_timeout"
    /\ attempts' = attempts + 1
    /\ resp' = [error |-> <<"Resource temporarily unavailable">>]
    /\ UNCHANGED <<running, stats, procVars, sockVars, cleanupTask, cur,
                   lastKernel, raised, delivered, msgCount, sdTask,
                   sigInKernel, unitVars>>

\* send_json raises zmq.Again after SNDTIMEO: continue, the response is lost.
SendTimeout ==
    /\ pcRun = "send"
    /\ socket = "open"
    /\ pcRun' = "loop"
    /\ event' = "send_timeout"
    /\ UNCHANGED <<running, stats, procVars, sockVars, cleanupTask, reqVars,
                   sdTask, unitVars>>

\* send_json raises another zmq.ZMQError: break.
SendZMQError ==
    /\ pcRun = "send"
    /\ pcRun' = "sd_start"
    /\ event' = "send_zmqerror"
    /\ UNCHANGED <<running, stats, procVars, sockVars, cleanupTask, reqVars,
                   sdTask, unitVars>>

\* The pending send is cancelled by the close of the socket: break.
SendCancelled ==
    /\ pcRun = "send"
    /\ socket = "closed"
    /\ pcRun' = "sd_start"
    /\ event' = "send_cancelled"
    /\ UNCHANGED <<running, stats, procVars, sockVars, cleanupTask, reqVars,
                   sdTask, unitVars>>

\* As ErrSend, with a failure of the send ending the loop.
ErrSendBreaks ==
    /\ pcRun = "errsend"
    /\ \E sent \in BOOLEAN :
          /\ sent => socket = "open"
          /\ event' = IF sent THEN "errsend_ok" ELSE "errsend_failed"
          /\ delivered' = sent
          /\ pcRun' = IF sent THEN "loop" ELSE "sd_start"
    /\ UNCHANGED <<running, stats, procVars, sockVars, cleanupTask, cur, resp,
                   lastKernel, raised, attempts, msgCount, sdTask,
                   sigInKernel, unitVars>>

\* 'except Exception': send {'error': str(e)}; whatever that send raises is
\* swallowed and the loop goes on.
ErrSend ==
    /\ pcRun = "errsend"
    /\ \E sent \in BOOLEAN :
          /\ sent => socket = "open"
          /\ event' = IF sent THEN "errsend_ok" ELSE "errsend_failed"
          /\ delivered' = sent
    /\ pcRun' = "loop"
    /\ UNCHANGED <<running, stats, procVars, sockVars, cleanupTask, cur, resp,
                   lastKernel, raised, attempts, msgCount, sdTask,
                   sigInKernel, unitVars>>

-----------------------------------------------------------------------------
(* GPUService.shutdown *)

\* shutdown() after 'await self._cleanup_task': the await re-raises the
\* exception of a failed task (only CancelledError is caught); otherwise
\* processor.cleanup(), socket.close(), context.term(), in that order.
Release(task, be, fault, cache, sock, ctx) ==
    IF task = "failed"
    THEN [ok |-> FALSE, cache |-> cache, socket |-> sock, context |-> ctx]
    ELSE LET c == Cleanup(be, fault, cache)
         IN  IF c.exc # NoExc
             THEN [ok |-> FALSE, cache |-> c.cache, socket |-> sock,
                   context |-> ctx]
             ELSE [ok |-> TRUE, cache |-> c.cache,
                   socket |-> IF sock = "none" THEN sock ELSE "closed",
                   context |-> IF ctx = "none" THEN ctx ELSE "terminated"]

\* shutdown() from its first line: running = False, cancel of the cleanup
\* task, and, when that task is already finished, the rest without a
\* suspension.  after is the position reached: "await", "done" or "failed".
ShutdownBegin(after) ==
    /\ running' = FALSE
    /\ cleanupTask' = Cancel(cleanupTask)
    /\ IF cleanupTask = "none" \/ TaskDone(cleanupTask)
       THEN \E fault \in BOOLEAN :
               LET r == Release(cleanupTask, backend, fault, cachedWindows,
                                socket, context)
               IN  /\ cachedWindows' = r.cache
                   /\ socket' = r.socket
                   /\ context' = r.context
                   /\ after = IF r.ok THEN "done" ELSE "failed"
       ELSE /\ after = "await"
            /\ UNCHANGED <<cachedWindows, socket, context>>

\* shutdown() resumed once the awaited cleanup task has finished.
ShutdownResume(after) ==
    /\ TaskDone(cleanupTask)
    /\ \E fault \in BOOLEAN :
          LET r == Release(cleanupTask, backend, fault, cachedWindows,
                           socket, context)
          IN  /\ cachedWindows' = r.cache
              /\ socket' = r.socket
              /\ context' = r.context
              /\ after = IF r.ok THEN "done" ELSE "failed"

\* 'await self.shutdown()' at the end of run().
RunShutdown ==
    /\ pcRun = "sd_start"
    /\ \E after \in {"await", "done", "failed"} :
          /\ ShutdownBegin(after)
          /\ pcRun' = CASE after = "await" -> "sd_await"
                        [] after = "done" -> "done"
                        [] OTHER -> "crashed"
          /\ event' = CASE after = "await" -> "shutdown_await"
                        [] after = "done" -> "shutdown_done"
                        [] OTHER -> "shutdown_raised"
    /\ UNCHANGED <<backend, stats, reqVars, sdTask, unitVars>>

RunShutdownResume ==
    /\ pcRun = "sd_await"
    /\ \E after \in {"done", "failed"} :
          /\ ShutdownResume(after)
          /\ pcRun' = IF after = "done" THEN "done" ELSE "crashed"
          /\ event' = IF after = "done" THEN "shutdown_done"
                      ELSE "shutdown_raised"
    /\ UNCHANGED <<backend, running, stats, cleanupTask, reqVars, sdTask, unitVars>>

-----------------------------------------------------------------------------
(* main: the signal handlers *)

\* The requests for which handle_request calls a kernel of the processor:
\* a position of the run task at "dispatch" with such a request is the
\* execution of that kernel.
RunsKernel(m) ==
    /\ m.shape = "dict"
    /\ m.command # NonString
    /\ CmdOf(m) \in IQCommands
    /\ m.iq = "good"

\* SIGINT or SIGTERM is delivered to the process; the loop runs the handler
\* the next time it gets control.
SignalArrive(i) ==
    /\ sdTask[i] = "none"
    /\ i > 1 => sdTask[i - 1] # "none"
    /\ pcRun \notin {"done", "crashed"}
    /\ sdTask' = [sdTask EXCEPT ![i] = "pending"]
    /\ sigInKernel' = (sigInKernel \/ (pcRun = "dispatch" /\ RunsKernel(cur)))
    /\ UNCHANGED <<backend, running, stats, cachedWindows, socket, context,
                   cleanupTask, pcRun, event, cur, resp, lastKernel, raised,
                   delivered, attempts, msgCount, unitVars>>

\* As SignalHandler, with the handler called at once, whatever the run task
\* is doing.
SignalHandlerPreempts(i) ==
    /\ sdTask[i] = "pending"
    /\ sdTask' = [sdTask EXCEPT ![i] = "start"]
    /\ UNCHANGED <<backend, running, stats, cachedWindows, socket, context,
                   cleanupTask, pcRun, event, reqVars, unitVars>>

\* The event loop calls the handler: asyncio.create_task(service.shutdown()).
SignalHandler(i) ==
    /\ sdTask[i] = "pending"
    /\ Suspended
    /\ sdTask' = [sdTask EXCEPT ![i] = "start"]
    /\ UNCHANGED <<backend, running, stats, cachedWindows, socket, context,
                   cleanupTask, pcRun, event, reqVars, unitVars>>

\* First step of the task created by the handler.
SdBegin(i) ==
    /\ sdTask[i] = "start"
    /\ Suspended
    /\ \E after \in {"await", "done", "failed"} :
          /\ ShutdownBegin(after)
          /\ sdTask' = [sdTask EXCEPT ![i] = after]
    /\ UNCHANGED <<backend, stats, pcRun, event, reqVars, unitVars>>

SdResume(i) ==
    /\ sdTask[i] = "await"
    /\ Suspended
    /\ \E after \in {"done", "failed"} :
          /\ ShutdownResume(after)
          /\ sdTask' = [sdTask EXCEPT ![i] = after]
    /\ UNCHANGED <<backend, running, stats, cleanupTask, pcRun, event,
                   reqVars, unitVars>>

-----------------------------------------------------------------------------
(* GPUService._periodic_cleanup *)

\* used_bytes > total_bytes * 0.8
OverThreshold(used, total) == used * 10 > total * 8

\* One round of the loop after the sleep: the state the task is left in,
\* the window cache, and whether cleanup() was called.
PeriodicBody(be, run, cache, mem, f1, f2) ==
    LET mi == GetMemoryInfo(be, f1, mem[1], mem[2])
        again == IF run THEN "sleeping" ELSE "finished"
    IN  IF mi.exc # NoExc
        THEN [task |-> "failed", cache |-> cache, cleaned |-> FALSE]
        ELSE IF OverThreshold(mi.result.used_bytes, mi.result.total_bytes)
        THEN LET c == Cleanup(be, f2, cache)
             IN  [task |-> IF c.exc # NoExc THEN "failed" ELSE again,
                  cache |-> c.cache, cleaned |-> TRUE]
        ELSE [task |-> again, cache |-> cache, cleaned |-> FALSE]

\* The sleep of memory_cleanup_interval expires.
PeriodicWake ==
    /\ cleanupTask = "sleeping"
    /\ Suspended
    /\ \E mem \in MemReadings(backend), f1 \in BOOLEAN, f2 \in BOOLEAN :
          LET b == PeriodicBody(backend, running, cachedWindows, mem, f1, f2)
          IN  /\ cleanupTask' = b.task
              /\ cachedWindows' = b.cache
    /\ UNCHANGED <<backend, running, stats, sockVars, pcRun, event, reqVars,
                   sdTask, unitVars>>

\* The cancelled task gets CancelledError at its sleep and ends.
CancelDeliver ==
    /\ cleanupTask = "cancelling"
    /\ Suspended
    /\ cleanupTask' = "cancelled"
    /\ UNCHANGED <<backend, running, stats, cachedWindows, sockVars, pcRun,
                   event, reqVars, sdTask, unitVars>>

-----------------------------------------------------------------------------

Signals == \E i \in 1..MaxSignals :
              SignalArrive(i) \/ SignalHandler(i) \/ SdBegin(i) \/ SdResume(i)

Next ==
    \/ RunStart \/ LoopHead
    \/ RecvMsg \/ RecvTimeout \/ RecvZMQError \/ RecvCancelled
    \/ Parse \/ Dispatch
    \/ SendOk \/ SendTimeout \/ SendZMQError \/ SendCancelled \/ ErrSend
    \/ RunShutdown \/ RunShutdownResume
    \/ Signals
    \/ PeriodicWake \/ CancelDeliver

Spec == Init /\ [][Next]_vars

TypeOK ==
    /\ backend \in {"gpu", "cpu"}
    /\ running \in BOOLEAN
    /\ cachedWindows \subseteq {"hann", "hamming"}
    /\ socket \in {"none", "open", "closed"}
    /\ context \in {"none", "live", "terminated"}
    /\ cleanupTask \in {"none", "sleeping", "cancelling", "cancelled",
                        "failed", "finished"}
    /\ pcRun \in {"init", "loop", "recv", "parse", "dispatch", "send",
                  "errsend", "sd_start", "sd_await", "done", "crashed"}
    /\ cur \in Messages \cup {NoMsg}
    /\ attempts \in 0..2
    /\ delivered \in BOOLEAN
    /\ msgCount \in 0..MaxRequests
    /\ sigInKernel \in BOOLEAN

-----------------------------------------------------------------------------
(* The processor under its callers: the kernels, _get_window,            *)
(* cleanup, and the rounds of _periodic_cleanup, with the service loop   *)
(* suspended at its receive throughout.                                   *)

\* What stays as it is while the loop is suspended.
svcFrozen == <<backend, running, stats, socket, context, pcRun, cur, resp,
               lastKernel, raised, delivered, event, attempts, msgCount,
               sdTask, sigInKernel>>

\* The service after RunStart and LoopHead, waiting in recv().
ProcInit ==
    /\ backend \in {"gpu", "cpu"}
    /\ running = TRUE
    /\ stats = InitStats
    /\ cachedWindows = {}
    /\ socket = "open"
    /\ context = "live"
    /\ cleanupTask = "sleeping"
    /\ pcRun = "recv"
    /\ cur = NoMsg
    /\ resp = NoResp
    /\ lastKernel = "none"
    /\ raised = NoExc
    /\ delivered = FALSE
    /\ event = "loop"
    /\ attempts = 0
    /\ msgCount = 0
    /\ sdTask = [i \in 1..MaxSignals |-> "none"]
    /\ sigInKernel = FALSE
    /\ ProcIdle
    /\ PoolIdle
    /\ EstIdle

procFrozen == <<svcFrozen, poolVars, estVars>>

\* The window types the model follows through the cache.
WindowTypes == {"hann", "hamming"}

\* _get_window(window_type, size): the cache after the call.
GetWindow(w, cache) == cache \cup {w}

\* A kernel called with a valid block (fault: the call fails on the device).
ProcKernel ==
    /\ \E cmd \in IQCommands, fault \in BOOLEAN :
          /\ fault => backend = "gpu"
          /\ LET k == Kernel(backend, cmd, fault, cachedWindows)
             IN  /\ cachedWindows' = k.cache
                 /\ procCall' = [op |-> cmd, fault |-> fault, exc |-> k.exc]
    /\ UNCHANGED <<procFrozen, cleanupTask>>

\* _get_window called on the processor.
ProcGetWindow ==
    /\ \E w \in WindowTypes :
          /\ cachedWindows' = GetWindow(w, cachedWindows)
          /\ procCall' = [op |-> "_get_window", window |-> w]
    /\ UNCHANGED <<procFrozen, cleanupTask>>

\* cleanup() called on the processor.
ProcCleanup ==
    /\ \E fault \in BOOLEAN :
          /\ fault => backend = "gpu"
          /\ LET c == Cleanup(backend, fault, cachedWindows)
             IN  /\ cachedWindows' = c.cache
                 /\ procCall' = [op |-> "cleanup", exc |-> c.exc,
                                 before |-> cachedWindows]
    /\ UNCHANGED <<procFrozen, cleanupTask>>

\* The sleep of _periodic_cleanup expires and the task makes one round.
ProcPeriodic ==
    /\ cleanupTask = "sleeping"
    /\ \E mem \in MemReadings(backend), f1 \in BOOLEAN, f2 \in BOOLEAN :
          /\ (f1 \/ f2) => backend = "gpu"
          /\ ~(f1 /\ f2)
          /\ LET b == PeriodicBody(backend, running, cachedWindows, mem, f1, f2)
             IN  /\ cleanupTask' = b.task
                 /\ cachedWindows' = b.cache
                 /\ procCall' = [op |-> "periodic", used |-> mem[1],
                                 total |-> mem[2], readFails |-> f1,
                                 cleanupFails |-> f2, cleaned |-> b.cleaned]
    /\ UNCHANGED procFrozen

\* The features of one domain as rf_dna_features stacks them: for each
\* region its variance, skewness and kurtosis; a feature is known by its
\* domain, its region and its statistic.
DomainFeat(d, regions) ==
    [k \in 1..(3 * regions) |-> <<d, (k - 1) \div 3, ((k - 1) % 3) + 1>>]

\* GPUSignalProcessor.rf_dna_features on a block of n samples: the stream
\* context, frequency[-1] of the n - 1 phase differences, and for each of
\* the three series of n values the reshape of its first
\* regions * region_size values into regions rows.
RfDnaFeatures(be, n, regions) ==
    LET region_size == n \div regions
        truncated == IF regions * region_size < n
                     THEN regions * region_size ELSE n
        features == DomainFeat(1, regions) \o DomainFeat(2, regions)
                        \o DomainFeat(3, regions)
    IN IF StreamContext(be) # NoExc
       THEN [exc |-> StreamContext(be), features |-> <<>>, feature_count |-> 0]
       ELSE IF n - 1 = 0
       THEN [exc |-> [type |-> "IndexError", msg |-> "frequency[-1]"],
             features |-> <<>>, feature_count |-> 0]
       ELSE IF truncated # regions * region_size
       THEN [exc |-> [type |-> "ValueError", msg |-> "reshape"],
             features |-> <<>>, feature_count |-> 0]
       ELSE [exc |-> NoExc, features |-> features,
             feature_count |-> Len(features)]

\* rf_dna.extract_rf_dna_features on a signal of n samples: nothing when
\* n < regions; else for amplitude and phase (n values) and frequency
\* (n - 1 values) the regions domain_data[start:end] that hold two values
\* or more.
ExtractRfDnaFeatures(n, regions) ==
    LET region_size == n \div regions
        length(d) == IF d = 3 THEN n - 1 ELSE n
        start(r) == r * region_size
        end(d, r) == IF (r + 1) * region_size < length(d)
                     THEN (r + 1) * region_size ELSE length(d)
        kept(t) == end(t[1], t[2]) - start(t[2]) >= 2
        features == SelectSeq(DomainFeat(1, regions), kept)
                        \o SelectSeq(DomainFeat(2, regions), kept)
                        \o SelectSeq(DomainFeat(3, regions), kept)
    IN IF n < regions
       THEN [exc |-> NoExc, features |-> <<>>, feature_count |-> 0]
       ELSE [exc |-> NoExc, features |-> features,
             feature_count |-> Len(features)]

\* rf_dna_features(block, regions) called on the processor.
ProcRfDna ==
    /\ \E n \in 1..MaxSamples, regions \in 1..MaxRegions :
          LET f == RfDnaFeatures(backend, n, regions)
          IN procCall' = [op |-> "rf_dna_features", n |-> n,
                          regions |-> regions, exc |-> f.exc,
                          features |-> f.features,
                          feature_count |-> f.feature_count]
    /\ UNCHANGED <<procFrozen, cleanupTask, cachedWindows>>

\* extract_rf_dna_features(signal, regions) of rf_dna called.
ProcExtractRfDna ==
    /\ \E n \in 1..MaxSamples, regions \in 1..MaxRegions :
          LET f == ExtractRfDnaFeatures(n, regions)
          IN procCall' = [op |-> "extract_rf_dna_features", n |-> n,
                          regions |-> regions, exc |-> f.exc,
                          features |-> f.features,
                          feature_count |-> f.feature_count]
    /\ UNCHANGED <<procFrozen, cleanupTask, cachedWindows>>

\* The floats a kernel puts in its arrays: a finite value and the three
\* non-finite ones, named as float.__repr__ names them.
Floats == {"1.5", "inf", "-inf", "nan"}
NonFinite == {"inf", "-inf", "nan"}

\* Longest array and most rows of a matrix a kernel returns.
MaxJsonLen == 2
MaxJsonRows == 1

\* The arrays of nesting depth d: a float, a vector, a matrix.
KernelArrays(d) ==
    CASE d = 0 -> Floats
      [] d = 1 -> UNION {[1..n -> Floats] : n \in 0..MaxJsonLen}
      [] OTHER -> UNION {[1..r -> [1..n -> Floats]] :
                            r \in 1..MaxJsonRows, n \in 0..MaxJsonLen}

\* json.dumps as send_json calls it (allow_nan left at its default): the
\* text as a sequence of tokens.  A float is written by float.__repr__,
\* the non-finite ones as NaN, Infinity, -Infinity; None as null.
FloatStr(x) ==
    CASE x = "nan" -> "NaN"
      [] x = "inf" -> "Infinity"
      [] x = "-inf" -> "-Infinity"
      [] x = "None" -> "null"
      [] OTHER -> x

RECURSIVE Dumps(_, _)
RECURSIVE DumpsItems(_, _, _)
DumpsItems(v, d, i) ==
    IF i > Len(v) THEN <<>>
    ELSE (IF i > 1 THEN <<",">> ELSE <<>>)
             \o Dumps(v[i], d - 1) \o DumpsItems(v, d, i + 1)

Dumps(v, d) ==
    IF d = 0 THEN <<FloatStr(v)>>
    ELSE <<"[">> \o DumpsItems(v, d, 1) \o <<"]">>

\* sanitize_for_json of snr_estimator: lists are walked, a float that is
\* inf or NaN becomes None.
RECURSIVE SanitizeForJson(_, _)
SanitizeForJson(obj, d) ==
    IF d = 0 THEN (IF obj \in NonFinite THEN "None" ELSE obj)
    ELSE [i \in DOMAIN obj |-> SanitizeForJson(obj[i], d - 1)]

\* The nesting depth of the array a handler returns with array.tolist().
ResultDepth(cmd) ==
    CASE cmd = "cumulants" -> 0
      [] cmd = "psd" -> 1
      [] OTHER -> 2

\* run() sends the response of a handler with send_json: the array the
\* kernel returned goes through tolist(), which keeps every value, and
\* through json.dumps.
ProcSendJson ==
    /\ \E cmd \in {"cumulants", "psd", "wvd"} :
          \E a \in KernelArrays(ResultDepth(cmd)) :
             procCall' = [op |-> "send_json", command |-> cmd, array |-> a,
                          text |-> Dumps(a, ResultDepth(cmd))]
    /\ UNCHANGED <<procFrozen, cleanupTask, cachedWindows>>

\* snr_estimator prints json.dumps(sanitize_for_json(results)).
ProcSanitizedPrint ==
    /\ \E d \in 0..2 :
          \E a \in KernelArrays(d) :
             procCall' = [op |-> "print", depth |-> d, array |-> a,
                          text |-> Dumps(SanitizeForJson(a, d), d)]
    /\ UNCHANGED <<procFrozen, cleanupTask, cachedWindows>>

\* Largest FFT size of a time-frequency kernel.
MaxNfft == 4

\* fft.fftfreq(n, 1/fs) in units of fs/n: the bins in the order fft.fft
\* returns them, 0 .. (n-1)//2, then -(n//2) .. -1.
FftFreq(n) == [i \in 1..n |-> IF i - 1 < (n + 1) \div 2 THEN i - 1 ELSE i - 1 - n]

\* fft.fftshift(x): the sequence rolled by len(x) // 2.
FftShift(x) ==
    LET n == Len(x)
    IN [i \in 1..n |-> x[((i - 1 - n \div 2) % n) + 1]]

\* fam_scf of the processor: the columns of scf_magnitude are those of
\* fft.fft(blocks, axis=1), which the FFT along axis 0 and the row
\* selection leave in place; spectral_freqs is fftshift(fftfreq(nfft)).
ProcFamScf ==
    /\ \E nfft \in 1..MaxNfft :
          LET k == Kernel(backend, "fam", FALSE, cachedWindows)
          IN  /\ cachedWindows' = k.cache
              /\ procCall' =
                     IF k.exc # NoExc
                     THEN [op |-> "fam_scf", nfft |-> nfft, exc |-> k.exc,
                           columns |-> <<>>, spectral_freqs |-> <<>>]
                     ELSE [op |-> "fam_scf", nfft |-> nfft, exc |-> NoExc,
                           columns |-> FftFreq(nfft),
                           spectral_freqs |-> FftShift(FftFreq(nfft))]
    /\ UNCHANGED <<procFrozen, cleanupTask>>

\* compute_fam of fam_algorithm: the columns as the FFT leaves them and
\* spectral_freqs = fftfreq(num_freqs), neither shifted.
ProcComputeFam ==
    /\ \E nfft \in 1..MaxNfft :
          procCall' = [op |-> "compute_fam", nfft |-> nfft, exc |-> NoExc,
                       columns |-> FftFreq(nfft),
                       spectral_freqs |-> FftFreq(nfft)]
    /\ UNCHANGED <<procFrozen, cleanupTask, cachedWindows>>

\* Largest num_time_points a caller passes.
MaxTimePoints == 2

\* wigner_ville and choi_williams up to the test of actual_time_points:
\* n samples, given says whether num_time_points was passed (ntp) or left
\* None.  N // num_time_points divides by zero when num_time_points is 0.
TimeFrequency(be, cmd, n, nfft, given, ntp, cache) ==
    LET k == Kernel(be, cmd, FALSE, cache)
        num_time_points == IF given THEN ntp ELSE n \div 4
        half_nfft == nfft \div 2
        step == n \div num_time_points
        time_step == IF step > 1 THEN step ELSE 1
        t_indices ==
            SelectSeq([i \in 1..num_time_points |->
                          (i - 1) * time_step + half_nfft],
                      LAMBDA t : t >= half_nfft /\ t < n - half_nfft)
    IN IF k.exc # NoExc
       THEN [exc |-> k.exc, shape |-> <<>>, values |-> "none",
             time_axis |-> <<>>]
       ELSE IF num_time_points = 0
       THEN [exc |-> [type |-> "ZeroDivisionError",
                      msg |-> "integer division or modulo by zero"],
             shape |-> <<>>, values |-> "none", time_axis |-> <<>>]
       ELSE IF Len(t_indices) = 0
       THEN [exc |-> NoExc, shape |-> <<1, nfft>>, values |-> "zeros",
             time_axis |-> <<0>>]
       ELSE [exc |-> NoExc, shape |-> <<Len(t_indices), nfft>>,
             values |-> "computed", time_axis |-> t_indices]

\* wigner_ville(block, nfft, num_time_points) or choi_williams(...) called
\* on the processor.
ProcTimeFrequency ==
    /\ \E cmd \in {"wvd", "cwd"}, n \in 0..MaxSamples, nfft \in 1..MaxNfft,
          given \in BOOLEAN, ntp \in 1..MaxTimePoints :
          LET r == TimeFrequency(backend, cmd, n, nfft, given, ntp,
                                 cachedWindows)
          IN procCall' = [op |-> cmd, n |-> n, nfft |-> nfft,
                          given |-> given, ntp |-> ntp, exc |-> r.exc,
                          shape |-> r.shape, values |-> r.values,
                          time_axis |-> r.time_axis]
    /\ UNCHANGED <<procFrozen, cleanupTask, cachedWindows>>

ProcNext ==
    \/ ProcKernel \/ ProcGetWindow \/ ProcCleanup \/ ProcPeriodic
    \/ ProcRfDna \/ ProcExtractRfDna
    \/ ProcSendJson \/ ProcSanitizedPrint
    \/ ProcFamScf \/ ProcComputeFam \/ ProcTimeFrequency

ProcSpec == ProcInit /\ [][ProcNext]_vars

-----------------------------------------------------------------------------
(* CUDAStreamPool.get_stream under concurrent callers.  A thread can be    *)
(* switched out between any two of its steps; the lock is what orders them. *)

svcVars == <<backend, running, stats, cachedWindows, socket, context,
             cleanupTask, pcRun, cur, resp, lastKernel, raised, delivered,
             event, attempts, msgCount, sdTask, sigInKernel>>
poolFrozen == <<svcVars, procCall, estVars>>

\* CUDAStreamPool(num_streams) with at least one stream, no call made yet.
PoolInit ==
    /\ SvcInit
    /\ ProcIdle
    /\ EstIdle
    /\ poolN \in 1..MaxStreams
    /\ poolIdx = 0
    /\ poolLock = 0
    /\ thPc = [t \in Threads |-> "idle"]
    /\ thStream = [t \in Threads |-> NoStream]
    /\ handed = <<>>
    /\ calls = 0

\* A thread calls get_stream().
PoolCall(t) ==
    /\ thPc[t] = "idle"
    /\ calls < MaxCalls
    /\ thPc' = [thPc EXCEPT ![t] = "wait"]
    /\ thStream' = [thStream EXCEPT ![t] = NoStream]
    /\ calls' = calls + 1
    /\ UNCHANGED <<poolFrozen, poolN, poolIdx, poolLock, handed>>

\* As PoolAcquire, entering the block without holding the lock.
PoolAcquireNoLock(t) ==
    /\ thPc[t] = "wait"
    /\ thPc' = [thPc EXCEPT ![t] = "locked"]
    /\ UNCHANGED <<poolFrozen, poolN, poolIdx, poolLock, thStream, handed,
                   calls>>

\* with self._lock: the thread gets the lock once it is free.
PoolAcquire(t) ==
    /\ thPc[t] = "wait"
    /\ poolLock = 0
    /\ poolLock' = t
    /\ thPc' = [thPc EXCEPT ![t] = "locked"]
    /\ UNCHANGED <<poolFrozen, poolN, poolIdx, thStream, handed, calls>>

\* stream = self.streams[self._current_idx]; streams[i] is known by i.
PoolRead(t) ==
    /\ thPc[t] = "locked"
    /\ thStream' = [thStream EXCEPT ![t] = poolIdx]
    /\ handed' = Append(handed, poolIdx)
    /\ thPc' = [thPc EXCEPT ![t] = "read"]
    /\ UNCHANGED <<poolFrozen, poolN, poolIdx, poolLock, calls>>

\* self._current_idx = (self._current_idx + 1) % self.num_streams
PoolAdvance(t) ==
    /\ thPc[t] = "read"
    /\ poolIdx' = (poolIdx + 1) % poolN
    /\ thPc' = [thPc EXCEPT ![t] = "advanced"]
    /\ UNCHANGED <<poolFrozen, poolN, poolLock, thStream, handed, calls>>

\* return stream: the with block ends and the lock is released.
PoolReturn(t) ==
    /\ thPc[t] = "advanced"
    /\ poolLock' = IF poolLock = t THEN 0 ELSE poolLock
    /\ thPc' = [thPc EXCEPT ![t] = "idle"]
    /\ UNCHANGED <<poolFrozen, poolN, poolIdx, thStream, handed, calls>>

PoolNext ==
    \E t \in Threads :
        \/ PoolCall(t) \/ PoolAcquire(t) \/ PoolRead(t)
        \/ PoolAdvance(t) \/ PoolReturn(t)

PoolSpec == PoolInit /\ [][PoolNext]_vars

-----------------------------------------------------------------------------
(* The estimators of demodulation_pipeline.py and costas_loop.py.  Samples *)
(* are complex numbers with integer parts, written <<re, im>>.  Angles are *)
(* kept on a grid of quarter turns, so that a rotation by the loop phase   *)
(* is exact, and the loop gains are one unit of that grid.                 *)

Re(z) == z[1]
Im(z) == z[2]
CZero == <<0, 0>>
CAdd(a, b) == <<a[1] + b[1], a[2] + b[2]>>
CSub(a, b) == <<a[1] - b[1], a[2] - b[2]>>
CMul(a, b) == <<a[1] * b[1] - a[2] * b[2], a[1] * b[2] + a[2] * b[1]>>
CConj(z) == <<z[1], -z[2]>>
Abs2(z) == z[1] * z[1] + z[2] * z[2]
AbsInt(x) == IF x < 0 THEN -x ELSE x
Sign(x) == IF x > 0 THEN 1 ELSE IF x < 0 THEN -1 ELSE 0
MinInt(a, b) == IF a < b THEN a ELSE b
MaxInt(a, b) == IF a > b THEN a ELSE b

\* sample * exp(-1j * phase), the phase in quarter turns.
Rotate(z, q) ==
    CASE q % 4 = 0 -> z
      [] q % 4 = 1 -> <<z[2], -z[1]>>
      [] q % 4 = 2 -> <<-z[1], -z[2]>>
      [] q % 4 = 3 -> <<-z[2], z[1]>>

\* np.angle, to the nearest quarter turn, in (-2, 2].
Angle(z) ==
    IF AbsInt(z[1]) >= AbsInt(z[2])
    THEN (IF z[1] >= 0 THEN 0 ELSE 2)
    ELSE (IF z[2] > 0 THEN 1 ELSE -1)

\* np.mod(phase + np.pi, 2 * np.pi) - np.pi
WrapPhase(p) == ((p + 2) % 4) - 2

\* The input blocks: MaxBlock samples, each 2+1j or its quarter turn 1-2j,
\* as received with no carrier offset or with a quarter turn per sample.
MaxBlock == 8
Blocks ==
    {[k \in 1..MaxBlock |-> Rotate(b[k], -(f * (k - 1)))] :
        b \in [1..MaxBlock -> {<<2, 1>>, <<1, -2>>}], f \in {0, 1}}

\* Modulation tags, a string being the sequence of its characters.
TagBpsk == <<"b", "p", "s", "k">>
TagQpsk == <<"q", "p", "s", "k">>
Tag8psk == <<"8", "p", "s", "k">>
Tag16qam == <<"1", "6", "q", "a", "m">>
Tag64qam == <<"6", "4", "q", "a", "m">>
TagUpperQpsk == <<"Q", "P", "S", "K">>
Tags == {TagBpsk, TagQpsk, Tag8psk, Tag16qam, Tag64qam, TagUpperQpsk}

\* str.lower on the characters the tags use.
LowerTag(s) ==
    [i \in 1..Len(s) |->
        CASE s[i] = "Q" -> "q" [] s[i] = "P" -> "p" [] s[i] = "S" -> "s"
          [] s[i] = "K" -> "k" [] OTHER -> s[i]]

\* sub in s
Contains(s, sub) ==
    \E i \in 0..(Len(s) - Len(sub)) :
        \A j \in 1..Len(sub) : s[i + j] = sub[j]

\* s.startswith(pre)
StartsWith(s, pre) ==
    /\ Len(s) >= Len(pre)
    /\ \A j \in 1..Len(pre) : s[j] = pre[j]

\* CostasLoop(mode="qpsk" if "qpsk" in modulation else "bpsk"), and
\* self.mode = mode.lower().
CostasMode(modulation) ==
    LowerTag(IF Contains(modulation, TagQpsk) THEN TagQpsk ELSE TagBpsk)

\* CostasLoop._phase_detector
PhaseDetector(mode, z) ==
    IF mode = TagBpsk
    THEN z[1] * z[2]
    ELSE z[1] * Sign(z[2]) - z[2] * Sign(z[1])

\* The gains self.alpha and self.beta of the loops, one unit each.
Alpha == 1
Beta == 1

\* CostasLoop.process: the loop runs on from the phase and frequency the
\* object holds, and leaves its last ones in the object.
RECURSIVE CostasProcessFrom(_, _, _, _, _)
CostasProcessFrom(mode, st, samples, i, acc) ==
    IF i > Len(samples)
    THEN [corrected |-> acc.corrected, phase_traj |-> acc.phase_traj,
          freq_traj |-> acc.freq_traj, phase |-> st.phase, freq |-> st.freq]
    ELSE LET rotated == Rotate(samples[i], st.phase)
             error == PhaseDetector(mode, rotated)
             freq == st.freq + Beta * error
             phase == WrapPhase(st.phase + Alpha * error + freq)
         IN CostasProcessFrom(mode, [phase |-> phase, freq |-> freq],
                samples, i + 1,
                [corrected |-> Append(acc.corrected, rotated),
                 phase_traj |-> Append(acc.phase_traj, phase),
                 freq_traj |-> Append(acc.freq_traj, freq)])

CostasProcess(mode, st, samples) ==
    CostasProcessFrom(mode, st, samples, 1,
        [corrected |-> <<>>, phase_traj |-> <<>>, freq_traj |-> <<>>])

\* costas_loop.CostasLoop: modulation_order 2 for a BPSK tag, 4 otherwise.
ModulationOrder(mode) == IF mode = TagBpsk THEN 2 ELSE 4

\* costas_loop.CostasLoop.phase_detector
PhaseDetectorOrder(order, z) ==
    IF order = 2
    THEN z[2] * Sign(z[1])
    ELSE Sign(z[1]) * z[2] - Sign(z[2]) * z[1]

\* max_freq of loop_filter: half a cycle per sample.
MaxFreq == 2
Clip(x, lo, hi) == MaxInt(lo, MinInt(hi, x))

\* nco_update: the two while loops bring the phase into [-pi, pi].
WrapNco(p) ==
    LET w == WrapPhase(p) IN IF w = -2 /\ p > 0 THEN 2 ELSE w

\* costas_loop.CostasLoop.process_sample: nco_mix, phase_detector,
\* loop_filter, nco_update.
ProcessSample(order, st, sample) ==
    LET corrected == Rotate(sample, st.phase)
        phase_error == PhaseDetectorOrder(order, corrected)
        frequency == Clip(st.freq + Beta * phase_error, -MaxFreq, MaxFreq)
        freq_correction == Alpha * phase_error + frequency
    IN [corrected |-> corrected, phase_error |-> phase_error,
        phase |-> WrapNco(st.phase + freq_correction), freq |-> frequency]

\* The for loop of costas_loop.CostasLoop.process_signal, from the state the
\* object holds.
RECURSIVE ProcessSignalFrom(_, _, _, _, _)
ProcessSignalFrom(order, st, samples, i, acc) ==
    IF i > Len(samples)
    THEN [corrected_samples |-> acc.corrected_samples,
          phase_errors |-> acc.phase_errors,
          frequencies |-> acc.frequencies,
          phase |-> st.phase, freq |-> st.freq]
    ELSE LET s == ProcessSample(order, st, samples[i])
         IN ProcessSignalFrom(order, [phase |-> s.phase, freq |-> s.freq],
                samples, i + 1,
                [corrected_samples |-> Append(acc.corrected_samples,
                                              s.corrected),
                 phase_errors |-> Append(acc.phase_errors, s.phase_error),
                 frequencies |-> Append(acc.frequencies, s.freq)])

\* Sum of f[i] over i in lo..hi, f a function to integers.
RECURSIVE ISum(_, _, _)
ISum(f, lo, hi) == IF lo > hi THEN 0 ELSE f[lo] + ISum(f, lo + 1, hi)

\* window_size of _detect_lock, 100 in the code.
WindowSize == 4

\* np.var(window) < lock_threshold, with lock_threshold = 0.1: the variance
\* is (w * sum(x^2) - sum(x)^2) / w^2.
LowVariance(window) ==
    LET w == Len(window)
        s1 == ISum(window, 1, w)
        s2 == ISum([k \in 1..w |-> window[k] * window[k]], 1, w)
    IN 10 * (w * s2 - s1 * s1) < w * w

\* costas_loop.CostasLoop._detect_lock: i runs over
\* range(window_size, len(phase_errors)), the window is
\* phase_errors[i - window_size:i].
DetectLock(phase_errors) ==
    LET n == Len(phase_errors)
        hits == {i \in WindowSize..(n - 1) :
                    LowVariance(SubSeq(phase_errors, i - WindowSize + 1, i))}
    IN IF n < WindowSize \/ hits = {}
       THEN [lock_detected |-> FALSE, lock_time |-> n]
       ELSE [lock_detected |-> TRUE,
             lock_time |-> (CHOOSE i \in hits : \A j \in hits : i <= j)
                               - WindowSize]

\* process_signal: the loop over the samples, then the lock detection;
\* lock_time_samples is None (-1 here) without a lock.
ProcessSignal(order, st, samples) ==
    LET r == ProcessSignalFrom(order, st, samples, 1,
                 [corrected_samples |-> <<>>, phase_errors |-> <<>>,
                  frequencies |-> <<>>])
        l == DetectLock(r.phase_errors)
    IN [corrected_samples |-> r.corrected_samples,
        phase_errors |-> r.phase_errors,
        frequencies |-> r.frequencies,
        phase |-> r.phase, freq |-> r.freq,
        lock_detected |-> l.lock_detected,
        lock_time_samples |-> IF l.lock_detected THEN l.lock_time ELSE -1]

\* self.sps of TimingRecovery: sample_rate / symbol_rate.
Sps == 2

\* TimingRecovery._interpolate at mu = 0; idx counts from 0.
Interpolate(samples, idx) ==
    IF idx < 1 \/ idx >= Len(samples) - 2
    THEN samples[MaxInt(0, MinInt(idx, Len(samples) - 1)) + 1]
    ELSE samples[idx + 1]

\* As TimingStep, with the upper clamp at 2 * sps.
TimingStepWide(error, adj) ==
    Clip(Sps + Alpha * error + adj, Sps \div 2, 2 * Sps)

\* timing_step, clamped to [0.5 * sps, 1.5 * sps].
TimingStep(error, adj) ==
    Clip(Sps + Alpha * error + adj, Sps \div 2, (3 * Sps) \div 2)

\* TimingRecovery.gardner_ted: the while loop, from the timing_adj the
\* object holds.  cursor lists the values sample_idx takes, the one that
\* ends the loop last.
RECURSIVE GardnerFrom(_, _, _, _, _)
GardnerFrom(adj, samples, sample_idx, prev_symbol, acc) ==
    IF ~(sample_idx < Len(samples) - Sps - 2)
    THEN [symbols |-> acc.symbols, timing_error |-> acc.timing_error,
          adj |-> adj, cursor |-> Append(acc.cursor, sample_idx)]
    ELSE LET current_symbol == Interpolate(samples, sample_idx)
             mid_sample == Interpolate(samples, sample_idx - Sps \div 2)
             error == Re(CMul(CSub(current_symbol, prev_symbol),
                              CConj(mid_sample)))
             newAdj == adj + Beta * error
         IN GardnerFrom(newAdj, samples,
                sample_idx + TimingStep(error, newAdj), current_symbol,
                [symbols |-> Append(acc.symbols, current_symbol),
                 timing_error |-> Append(acc.timing_error, error),
                 cursor |-> Append(acc.cursor, sample_idx)])

\* As GardnerTed, with the loop run on the first half of the block.
GardnerTedHalfBlock(adj, samples) ==
    GardnerFrom(adj, SubSeq(samples, 1, Len(samples) \div 2), Sps \div 2,
                CZero, [symbols |-> <<>>, timing_error |-> <<>>,
                        cursor |-> <<>>])

GardnerTed(adj, samples) ==
    GardnerFrom(adj, samples, Sps \div 2, CZero,
                [symbols |-> <<>>, timing_error |-> <<>>, cursor |-> <<>>])

\* The constellations of _get_constellation, each in the unit that puts
\* its points on the integer grid (8psk to the nearest tenth).
ConstQpsk == <<<<1, 1>>, <<1, -1>>, <<-1, 1>>, <<-1, -1>>>>

\* constellations.get(modulation, constellations["qpsk"])
GetConstellation(modulation) ==
    LET levels == <<-3, -1, 1, 3>>
    IN CASE modulation = TagBpsk -> <<<<1, 0>>, <<-1, 0>>>>
         [] modulation = TagQpsk -> ConstQpsk
         [] modulation = Tag8psk ->
                <<<<10, 0>>, <<7, 7>>, <<0, 10>>, <<-7, 7>>,
                  <<-10, 0>>, <<-7, -7>>, <<0, -10>>, <<7, -7>>>>
         [] modulation = Tag16qam ->
                [k \in 1..16 |-> <<levels[((k - 1) \div 4) + 1],
                                   levels[((k - 1) % 4) + 1]>>]
         [] OTHER -> ConstQpsk

\* np.argmin(np.abs(sym - constellation)): the first nearest point.
ArgMin(sym, constellation) ==
    CHOOSE i \in 1..Len(constellation) :
        /\ \A j \in 1..Len(constellation) :
               Abs2(CSub(sym, constellation[i]))
                   <= Abs2(CSub(sym, constellation[j]))
        /\ \A j \in 1..(i - 1) :
               Abs2(CSub(sym, constellation[j]))
                   > Abs2(CSub(sym, constellation[i]))

\* TimingRecovery.mueller_muller_ted with the default constellation.
RECURSIVE MuellerMullerFrom(_, _, _, _, _, _)
MuellerMullerFrom(adj, samples, sample_idx, prev_symbol, prev_decision, acc) ==
    IF ~(sample_idx < Len(samples) - Sps - 2)
    THEN [symbols |-> acc.symbols, timing_error |-> acc.timing_error,
          adj |-> adj, cursor |-> Append(acc.cursor, sample_idx)]
    ELSE LET current_symbol == Interpolate(samples, sample_idx)
             current_decision ==
                 ConstQpsk[ArgMin(current_symbol, ConstQpsk)]
             error == Re(CSub(CMul(prev_decision, CConj(current_symbol)),
                              CMul(current_decision, CConj(prev_symbol))))
             newAdj == adj + Beta * error
         IN MuellerMullerFrom(newAdj, samples,
                sample_idx + TimingStep(error, newAdj), current_symbol,
                current_decision,
                [symbols |-> Append(acc.symbols, current_symbol),
                 timing_error |-> Append(acc.timing_error, error),
                 cursor |-> Append(acc.cursor, sample_idx)])

MuellerMullerTed(adj, samples) ==
    MuellerMullerFrom(adj, samples, Sps \div 2, CZero, ConstQpsk[1],
                      [symbols |-> <<>>, timing_error |-> <<>>, cursor |-> <<>>])

\* Sum of f[i] over i in lo..hi, f a function to complex numbers.
RECURSIVE CSum(_, _, _)
CSum(f, lo, hi) == IF lo > hi THEN CZero ELSE CAdd(f[lo], CSum(f, lo + 1, hi))

\* a / b to the nearest integer, b > 0.
RoundDiv(a, b) == (2 * a + b) \div (2 * b)

\* CFOEstimator.fitz_estimator: the phases of the autocorrelations at the
\* lags 1..max_lag, weighted by m * (n - m) and divided by the lag; the
\* result in quarter turns per sample.
FitzEstimator(samples) ==
    LET n == Len(samples)
        max_lag == MinInt(10, n \div 4)
        r == [m \in 1..max_lag |->
                 CSum([k \in 1..(n - m) |->
                          CMul(samples[k + m], CConj(samples[k]))],
                      1, n - m)]
        weights == [m \in 1..max_lag |-> m * (n - m)]
        total == ISum(weights, 1, max_lag)
        \* sum of weights[m] * phases[m] / m, over the common divisor
        num == ISum([m \in 1..max_lag |-> (n - m) * Angle(r[m])],
                    1, max_lag)
    IN IF max_lag = 0 THEN 0 ELSE RoundDiv(num, total)

\* iq_samples * np.exp(-1j * 2 * np.pi * cfo_hz * t)
Derotate(samples, cfo) ==
    [k \in 1..Len(samples) |-> Rotate(samples[k], cfo * (k - 1))]

\* The taps of rrc_filter: an odd number of them, symmetric, real.
RrcTaps == <<1, 2, 1>>

\* np.convolve(x, h, mode='same') for real x and h: max(n, T) values
\* centred in the full convolution.
ConvolveSame(x, h) ==
    LET n == Len(x)
        T == Len(h)
        off == (MinInt(n, T) - 1) \div 2
        full(j) == ISum([i \in 0..(T - 1) |->
                            IF j - i >= 0 /\ j - i < n
                            THEN h[i + 1] * x[j - i + 1] ELSE 0],
                        0, T - 1)
    IN [k \in 1..MaxInt(n, T) |-> full(k - 1 + off)]

\* MatchedFilter.apply(filter_type="rrc"): the real and the imaginary part
\* are convolved apart (on GPU in two calls, on CPU inside np.convolve).
MatchedFilterApply(samples) ==
    LET re == ConvolveSame([k \in 1..Len(samples) |-> Re(samples[k])], RrcTaps)
        im == ConvolveSame([k \in 1..Len(samples) |-> Im(samples[k])], RrcTaps)
    IN [k \in 1..Len(re) |-> <<re[k], im[k]>>]

\* M2M4Estimator.estimate: the moments of the magnitude, kappa of the
\* kappa_table in hundredths, the corrected denominator, and the fallback
\* taken when it is not positive.
M2M4Estimate(samples, modulation) ==
    LET n == Len(samples)
        kappa == CASE LowerTag(modulation) = Tag16qam -> 132
                   [] LowerTag(modulation) = Tag64qam -> 138
                   [] OTHER -> 100
        m2 == ISum([k \in 1..n |-> Abs2(samples[k])], 1, n)
        m4 == ISum([k \in 1..n |-> Abs2(samples[k]) * Abs2(samples[k])], 1, n)
        den == kappa * m4 * n - 100 * m2 * m2
    IN [m2 |-> m2, m4 |-> m4, numerator |-> 200 * m2 * m2,
        denominator |-> den, fallback |-> (den <= 0)]

\* Step 7 of demodulate: the nearest constellation point of each symbol.
DecisionIndices(symbols, constellation) ==
    [i \in 1..Len(symbols) |-> ArgMin(symbols[i], constellation)]
Decisions(indices, constellation) ==
    [i \in 1..Len(indices) |-> constellation[indices[i]]]

\* Step 8: np.mean(np.abs(symbols - decisions)**2), as the sum and the count.
Evm(symbols, decisions) ==
    [sum |-> ISum([i \in 1..Len(symbols) |->
                      Abs2(CSub(symbols[i], decisions[i]))],
                  1, Len(symbols)),
     count |-> Len(symbols)]

\* Calls made on one estimator object.
MaxRuns == 2

\* An estimator object as its constructor leaves it, and the block its
\* caller holds.  The loops built directly take their mode as given.  The
\* estimators compute the same values with CuPy and with NumPy; the CPU
\* backend is the one followed.
EstInit ==
    /\ SvcInit
    /\ backend = "cpu"
    /\ ProcIdle
    /\ PoolIdle
    /\ est \in {"pipeline", "costas", "costas_loop", "gardner",
                "mueller_muller"}
    /\ modTag \in (IF est = "pipeline" THEN Tags ELSE {TagBpsk, TagQpsk})
    /\ block \in Blocks
    /\ pcDemod = 0
    /\ loopSt = FreshLoops
    /\ stage = NoStage
    /\ trace = <<>>
    /\ runs = <<>>

estFrozen == <<svcVars, procCall, poolVars>>

\* 1. cfo_estimate = self.cfo_estimator.estimate(iq_samples, method="fitz")
DemodCfo ==
    /\ est = "pipeline"
    /\ pcDemod \in {0, 8}
    /\ Len(runs) < MaxRuns
    /\ stage' = [NoStage EXCEPT !.cfo = FitzEstimator(block)]
    /\ trace' = <<"cfo">>
    /\ pcDemod' = 1
    /\ UNCHANGED <<estFrozen, est, modTag, block, loopSt, runs>>

\* 2. corrected = iq_samples * np.exp(-1j * 2 * np.pi * cfo_hz * t)
DemodDerotate ==
    /\ est = "pipeline"
    /\ pcDemod = 1
    /\ stage' = [stage EXCEPT !.corrected = Derotate(block, stage.cfo)]
    /\ trace' = Append(trace, "derotate")
    /\ pcDemod' = 2
    /\ UNCHANGED <<estFrozen, est, modTag, block, loopSt, runs>>

\* 3. filtered = self.matched_filter.apply(corrected, filter_type="rrc")
DemodFilter ==
    /\ est = "pipeline"
    /\ pcDemod = 2
    /\ stage' = [stage EXCEPT !.filtered = MatchedFilterApply(stage.corrected)]
    /\ trace' = Append(trace, "rrc")
    /\ pcDemod' = 3
    /\ UNCHANGED <<estFrozen, est, modTag, block, loopSt, runs>>

\* As DemodSnr, on the de-rotated stream in place of the filtered one.
DemodSnrUnfiltered ==
    /\ est = "pipeline"
    /\ pcDemod = 3
    /\ stage' = [stage EXCEPT
                    !.snr = M2M4Estimate(stage.corrected, LowerTag(modTag))]
    /\ trace' = Append(trace, "snr")
    /\ pcDemod' = 4
    /\ UNCHANGED <<estFrozen, est, modTag, block, loopSt, runs>>

\* 4. snr_estimate = self.snr_estimator.estimate(filtered, self.modulation)
DemodSnr ==
    /\ est = "pipeline"
    /\ pcDemod = 3
    /\ stage' = [stage EXCEPT
                    !.snr = M2M4Estimate(stage.filtered, LowerTag(modTag))]
    /\ trace' = Append(trace, "snr")
    /\ pcDemod' = 4
    /\ UNCHANGED <<estFrozen, est, modTag, block, loopSt, runs>>

\* 5. self.costas.reset(); self.costas.process(filtered)
DemodCostas ==
    /\ est = "pipeline"
    /\ pcDemod = 4
    /\ LET r == CostasProcess(CostasMode(modTag), [phase |-> 0, freq |-> 0],
                              stage.filtered)
       IN /\ stage' = [stage EXCEPT
                          !.mode = CostasMode(modTag),
                          !.carrier = r.corrected,
                          !.final_phase = IF Len(r.phase_traj) > 0
                                          THEN r.phase_traj[Len(r.phase_traj)]
                                          ELSE 0,
                          !.final_freq = IF Len(r.freq_traj) > 0
                                         THEN r.freq_traj[Len(r.freq_traj)]
                                         ELSE 0]
          /\ loopSt' = [loopSt EXCEPT !.phase = r.phase, !.freq = r.freq]
    /\ trace' = Append(trace, "costas")
    /\ pcDemod' = 5
    /\ UNCHANGED <<estFrozen, est, modTag, block, runs>>

\* 6. self.timing_recovery.reset(); gardner_ted(carrier_corrected)
DemodGardner ==
    /\ est = "pipeline"
    /\ pcDemod = 5
    /\ LET r == GardnerTed(0, stage.carrier)
       IN /\ stage' = [stage EXCEPT !.symbols = r.symbols,
                                    !.timing_error = r.timing_error]
          /\ loopSt' = [loopSt EXCEPT !.adj = r.adj]
    /\ trace' = Append(trace, "gardner")
    /\ pcDemod' = 6
    /\ UNCHANGED <<estFrozen, est, modTag, block, runs>>

\* 7. the decisions over timing_result.symbols
DemodDecide ==
    /\ est = "pipeline"
    /\ pcDemod = 6
    /\ LET idx == DecisionIndices(stage.symbols, GetConstellation(modTag))
       IN stage' = [stage EXCEPT
                       !.decisions = Decisions(idx, GetConstellation(modTag)),
                       !.decision_indices = idx]
    /\ trace' = Append(trace, "decision")
    /\ pcDemod' = 7
    /\ UNCHANGED <<estFrozen, est, modTag, block, loopSt, runs>>

\* What demodulate returns.
DemodResults(st) ==
    [cfo |-> st.cfo, snr |-> st.snr,
     costas |-> [final_phase |-> st.final_phase, final_freq |-> st.final_freq],
     timing |-> [num_symbols |-> Len(st.symbols),
                 timing_error |-> st.timing_error],
     evm |-> st.evm, symbols |-> st.symbols, decisions |-> st.decisions,
     decision_indices |-> st.decision_indices]

\* 8. the EVM of the symbols against their decisions, and the return.
DemodEvm ==
    /\ est = "pipeline"
    /\ pcDemod = 7
    /\ LET done == [stage EXCEPT !.evm = Evm(stage.symbols, stage.decisions)]
       IN /\ stage' = done
          /\ runs' = Append(runs, DemodResults(done))
    /\ trace' = Append(trace, "evm")
    /\ pcDemod' = 8
    /\ UNCHANGED <<estFrozen, est, modTag, block, loopSt>>

\* costas.process(block) on a CostasLoop of demodulation_pipeline.
CostasProcessCall ==
    /\ est = "costas"
    /\ Len(runs) < MaxRuns
    /\ LET r == CostasProcess(LowerTag(modTag),
                              [phase |-> loopSt.phase, freq |-> loopSt.freq],
                              block)
       IN /\ runs' = Append(runs, [corrected |-> r.corrected,
                                   phase_traj |-> r.phase_traj,
                                   freq_traj |-> r.freq_traj])
          /\ loopSt' = [loopSt EXCEPT !.phase = r.phase, !.freq = r.freq]
    /\ UNCHANGED <<estFrozen, est, modTag, block, pcDemod, stage, trace>>

\* costas.process_signal(block) on a CostasLoop of costas_loop.
ProcessSignalCall ==
    /\ est = "costas_loop"
    /\ Len(runs) < MaxRuns
    /\ LET r == ProcessSignal(ModulationOrder(modTag),
                              [phase |-> loopSt.phase, freq |-> loopSt.freq],
                              block)
       IN /\ runs' = Append(runs,
                        [corrected_samples |-> r.corrected_samples,
                         phase_errors |-> r.phase_errors,
                         frequencies |-> r.frequencies,
                         lock_detected |-> r.lock_detected,
                         lock_time_samples |-> r.lock_time_samples])
          /\ loopSt' = [loopSt EXCEPT !.phase = r.phase, !.freq = r.freq]
    /\ UNCHANGED <<estFrozen, est, modTag, block, pcDemod, stage, trace>>

\* timing.gardner_ted(block) on a TimingRecovery.
GardnerCall ==
    /\ est = "gardner"
    /\ Len(runs) < MaxRuns
    /\ LET r == GardnerTed(loopSt.adj, block)
       IN /\ runs' = Append(runs, [symbols |-> r.symbols,
                                   timing_error |-> r.timing_error])
          /\ loopSt' = [loopSt EXCEPT !.adj = r.adj]
          /\ trace' = r.cursor
    /\ UNCHANGED <<estFrozen, est, modTag, block, pcDemod, stage>>

\* timing.mueller_muller_ted(block) on a TimingRecovery.
MuellerMullerCall ==
    /\ est = "mueller_muller"
    /\ Len(runs) < MaxRuns
    /\ LET r == MuellerMullerTed(loopSt.adj, block)
       IN /\ runs' = Append(runs, [symbols |-> r.symbols,
                                   timing_error |-> r.timing_error])
          /\ loopSt' = [loopSt EXCEPT !.adj = r.adj]
          /\ trace' = r.cursor
    /\ UNCHANGED <<estFrozen, est, modTag, block, pcDemod, stage>>

EstNext ==
    \/ DemodCfo \/ DemodDerotate \/ DemodFilter \/ DemodSnr
    \/ DemodCostas \/ DemodGardner \/ DemodDecide \/ DemodEvm
    \/ CostasProcessCall \/ ProcessSignalCall
    \/ GardnerCall \/ MuellerMullerCall

EstSpec == EstInit /\ [][EstNext]_vars

-----------------------------------------------------------------------------
(* The timing loops on blocks of every length *)

\* Longest block, and largest timing_adj an object holds when it is called.
MaxTimingLen == 9
MaxAdj == 2

\* A TimingRecovery with any timing_adj left by earlier blocks, and a block
\* of any length from 0.
TimingInit ==
    /\ SvcInit
    /\ backend = "cpu"
    /\ ProcIdle
    /\ PoolIdle
    /\ est \in {"gardner", "mueller_muller"}
    /\ modTag = TagQpsk
    /\ block \in UNION {[1..n -> {<<2, 1>>, <<1, -2>>}] : n \in 0..MaxTimingLen}
    /\ pcDemod = 0
    /\ \E a \in (-MaxAdj)..MaxAdj : loopSt = [FreshLoops EXCEPT !.adj = a]
    /\ stage = NoStage
    /\ trace = <<>>
    /\ runs = <<>>

TimingNext == GardnerCall \/ MuellerMullerCall

TimingSpec == TimingInit /\ [][TimingNext]_vars

-----------------------------------------------------------------------------
(* Steps of the run task, named by the position they leave *)

ParseStep == pcRun = "parse" /\ pcRun' # "parse"
DispatchStep == pcRun = "dispatch" /\ pcRun' # "dispatch"
RunStep == event' # event
InLoop == {"loop", "recv", "parse", "dispatch", "send", "errsend"}
HasError(r) == "error" \in DOMAIN r

-----------------------------------------------------------------------------
(* Dispatch contract *)

\* C1: for every request that parses as JSON, whatever its value and whatever
\* the type of its command, an error raised while the service dispatches it
\* is answered with exactly the fields error, command, processing_time_ms.
DispatchErrorEnvelope ==
    (/\ pcRun \in {"send", "errsend"}
     /\ event \in {"dispatched", "dispatch_raised"}
     /\ raised # NoExc)
    => DOMAIN resp = {"error", "command", "processing_time_ms"}

\* C2: every response the service sends carries processing_time_ms.
ResponsesCarryTime ==
    event \in {"send_ok", "errsend_ok"} => "processing_time_ms" \in DOMAIN resp

\* C3: a request whose command is none of the ten commands is answered by
\* handle_request with 'Unknown command: <cmd>'; requests_failed and
\* requests_total grow by one, requests_success and bytes_processed stay.
UnknownCommandAnswered ==
    [][(/\ DispatchStep
        /\ cur.shape = "dict"
        /\ cur.command = NonString \/ CmdOf(cur) \notin Commands)
       => /\ pcRun' = "send"
          /\ HasError(resp')
          /\ resp'.error = UnknownText(CmdOf(cur))
          /\ stats'.failed = stats.failed + 1
          /\ stats'.total = stats.total + 1
          /\ stats'.success = stats.success
          /\ stats'.bytes = stats.bytes]_vars

\* C4: a psd, fam, wvd, cwd, rf_dna or cumulants request that lacks iq_real
\* or iq_imag is answered with 'Missing IQ data', and no kernel of the
\* processor is invoked for it.
MissingIqRefused ==
    (/\ pcRun \in {"send", "errsend"}
     /\ event \in {"dispatched", "dispatch_raised"}
     /\ cur.shape = "dict"
     /\ cur.command # NonString
     /\ CmdOf(cur) \in IQCommands
     /\ cur.iq \in {"none", "real_only", "imag_only"})
    => /\ pcRun = "send"
       /\ HasError(resp)
       /\ resp.error = MissingText
       /\ lastKernel = "none"

MissingIqWitness ==
    /\ pcRun = "send"
    /\ cur.shape = "dict"
    /\ cur.command = "fam"
    /\ cur.iq = "imag_only"
    /\ HasError(resp)
    /\ resp.error = MissingText

\* C5: a message that is not valid JSON is answered with an error that
\* starts with 'Invalid JSON: ', the statistics are left as they were, and
\* the loop goes on to the send and back to the receive.
InvalidJsonAnswered ==
    [][(ParseStep /\ cur.shape \in {"badutf8", "badjson"})
       => /\ HasError(resp')
          /\ Head(resp'.error) = "Invalid JSON: "
          /\ stats' = stats
          /\ pcRun' \in {"send", "errsend"}]_vars

\* C6: the response to a ping has status 'ok' and a stats.requests_total of
\* at least 1, the first request after startup included.
PingCountsItself ==
    (/\ pcRun = "send"
     /\ event = "dispatched"
     /\ cur.command \in {"ping", "PING"}
     /\ ~HasError(resp))
    => /\ resp.status = "ok"
       /\ resp.stats.requests_total >= 1

-----------------------------------------------------------------------------
(* The service loop *)

\* C7: the loop handles one request at a time: a message is received only at
\* the receive of the loop, exactly one send was attempted for the previous
\* message by then, and never more than one send is attempted for a message.
OneRequestAtATime ==
    [][/\ msgCount' # msgCount =>
            /\ pcRun = "recv" /\ pcRun' = "parse"
            /\ msgCount' = msgCount + 1
            /\ msgCount > 0 => attempts = 1
            /\ attempts' = 0
       /\ attempts' <= 1
       /\ delivered' => attempts' = 1
       /\ DispatchStep => attempts = 0 /\ attempts' = 1]_vars

SecondRequestWitness ==
    /\ msgCount = 2
    /\ pcRun = "send"
    /\ attempts = 1
    /\ stats.total = 1
    /\ ~delivered

TimeoutsKeepLoop ==
    [][/\ (RunStep /\ event' = "recv_timeout")
          => /\ pcRun' = "loop"
             /\ delivered' = delivered /\ attempts' = attempts
             /\ stats' = stats /\ running' = running /\ socket' = socket
       /\ (RunStep /\ event' = "send_timeout")
          => /\ pcRun' = "loop"
             /\ delivered' = delivered /\ attempts' = attempts
             /\ stats' = stats /\ running' = running /\ socket' = socket
       /\ (pcRun = "loop" /\ running /\ RunStep)
          => pcRun' = "recv" /\ socket' = socket]_vars

SendTimeoutWitness ==
    /\ pcRun = "loop"
    /\ event = "send_timeout"
    /\ running
    /\ msgCount = 1
    /\ ~delivered

-----------------------------------------------------------------------------
(* Shutdown *)

HandlerRan == \E i \in 1..MaxSignals : sdTask[i] \notin {"none", "pending"}

FinalState ==
    /\ ~running
    /\ cleanupTask = "cancelled"
    /\ socket = "closed"
    /\ context = "terminated"
    /\ cachedWindows = {}

\* C10: after an interrupt or terminate signal the shutdown ends in a state
\* where running is false, the cleanup task is cancelled, the socket is
\* closed, the context is terminated and the caches are dropped, and no
\* request is dispatched from then on.
ShutdownReachesFinalState ==
    /\ []((HandlerRan /\ pcRun \in {"done", "crashed"}) => FinalState)
    /\ [][FinalState => ~DispatchStep]_vars

\* C11 as stated: when a signal arrives while a kernel is executing for a
\* request, the cleanup task is cancelled and the socket is closed by the
\* time the kernel completes, and no response to that request is sent.
ShutdownPreemptsKernel ==
    /\ [][(DispatchStep /\ sigInKernel)
           => /\ socket' = "closed"
              /\ cleanupTask' \in {"cancelling", "cancelled"}]_vars
    /\ [](sigInKernel => ~delivered)

\* C11 amended: a signal that arrives while a kernel is executing waits for
\* the run task to suspend.  The kernel completes and handle_request returns
\* with running, the cleanup task, the socket and the context untouched; the
\* handler and the shutdown it starts move only while the run task is
\* suspended at an await; the response is sent if the send completes while
\* the socket is still open.
KernelCompletesBeforeShutdown ==
    [][/\ DispatchStep
          => /\ UNCHANGED <<running, cleanupTask, socket, context, sdTask>>
             /\ lastKernel' # "none" <=> RunsKernel(cur)
       /\ (\E i \in 1..MaxSignals :
               sdTask'[i] # sdTask[i] /\ sdTask[i] # "none")
          => Suspended /\ UNCHANGED pcRun
       /\ (sigInKernel /\ delivered' /\ ~delivered)
          => socket = "open" /\ pcRun \in {"send", "errsend"}]_vars

SignalInKernelAnsweredWitness ==
    /\ sigInKernel
    /\ lastKernel # "none"
    /\ raised = NoExc
    /\ event = "send_ok"
    /\ delivered
    /\ ~HasError(resp)

-----------------------------------------------------------------------------
(* The processor and the periodic cleanup *)

\* A round of the periodic task that read the memory information invoked
\* cleanup() exactly when used bytes exceeded 80% of total bytes.
ThresholdDecidesCleanup ==
    (procCall.op = "periodic" /\ ~procCall.readFails)
    => (procCall.cleaned <=> 5 * procCall.used > 4 * procCall.total)

\* C12: while the service is running the periodic task is there at every
\* expiry of the interval, and at each it invokes cleanup() if and only if
\* the pool's used bytes exceed 80% of its total bytes.
CleanupAtEveryExpiry ==
    /\ running => cleanupTask = "sleeping"
    /\ ThresholdDecidesCleanup

\* C13: when get_memory_info() or cleanup() raises inside the periodic task,
\* the error is swallowed and the task sleeps again, the service running.
PeriodicErrorsSwallowed ==
    (/\ procCall.op = "periodic"
     /\ procCall.readFails \/ (procCall.cleanupFails /\ procCall.cleaned)
     /\ running)
    => cleanupTask = "sleeping"

CpuKernelsRun ==
    (backend = "cpu" /\ procCall.op \in IQCommands /\ ~procCall.fault)
    => procCall.exc = NoExc

\* C20: for every block length N >= 1 and region count R >= 1, RF-DNA
\* extraction by rf_dna_features and by extract_rf_dna_features returns a
\* vector of exactly 9 * R features and reports feature_count = 9 * R.
RfDnaHasNineR ==
    procCall.op \in {"rf_dna_features", "extract_rf_dna_features"}
    => /\ procCall.exc = NoExc
       /\ Len(procCall.features) = 9 * procCall.regions
       /\ procCall.feature_count = 9 * procCall.regions

-----------------------------------------------------------------------------
(* The stream pool *)

\* C16: with N >= 1 streams and any interleaving of the callers, the streams
\* handed out, in the order the lock was taken, are streams[0], streams[1],
\* .., streams[N-1] and round again; the index stays in 0..N-1; two calls
\* that read the same index have at least N-1 other calls between them.
RoundRobinOrder ==
    /\ poolIdx \in 0..(poolN - 1)
    /\ \A k \in 1..Len(handed) : handed[k] = (k - 1) % poolN
    /\ \A j, k \in 1..Len(handed) :
          (j < k /\ handed[j] = handed[k]) => k - j - 1 >= poolN - 1
    /\ \A t \in Threads :
          thPc[t] \in {"read", "advanced"} => thStream[t] \in 0..(poolN - 1)

RoundRobinWitness ==
    /\ poolN = 2
    /\ Len(handed) = 3
    /\ \E t, u \in Threads :
          /\ thPc[t] = "read" /\ thStream[t] = 0
          /\ thPc[u] = "wait"
          /\ poolLock = t

-----------------------------------------------------------------------------
(* The demodulation pipeline and the estimators *)

\* The order of the stages: Fitz CFO estimate, de-rotation, RRC matched
\* filter, M2M4 SNR, Costas tracking, Gardner timing recovery, decision, EVM.
StageOrder == <<"cfo", "derotate", "rrc", "snr", "costas", "gardner",
                "decision", "evm">>

\* C17: demodulate runs its stages in the fixed order, and each stage works on
\* the output of the stage named for it: the CFO estimate on the raw block,
\* the de-rotation on the raw block by that estimate, the matched filter on
\* the de-rotated stream, SNR and Costas on the filtered stream, timing
\* recovery on the Costas output, decisions and EVM on the recovered symbols.
StagesInOrderOnNamedInputs ==
    est = "pipeline" =>
        /\ pcDemod \in 0..Len(StageOrder)
        /\ trace = SubSeq(StageOrder, 1, pcDemod)
        /\ pcDemod >= 1 => stage.cfo = FitzEstimator(block)
        /\ pcDemod >= 2 => stage.corrected = Derotate(block, stage.cfo)
        /\ pcDemod >= 3 => stage.filtered = MatchedFilterApply(stage.corrected)
        /\ pcDemod >= 4 =>
               stage.snr = M2M4Estimate(stage.filtered, LowerTag(modTag))
        /\ pcDemod >= 5 =>
               stage.carrier =
                   CostasProcess(stage.mode, [phase |-> 0, freq |-> 0],
                                 stage.filtered).corrected
        /\ pcDemod >= 6 =>
               stage.symbols = GardnerTed(0, stage.carrier).symbols
        /\ pcDemod >= 7 =>
               /\ Len(stage.decisions) = Len(stage.symbols)
               /\ \A i \in 1..Len(stage.symbols) :
                      \E k \in 1..Len(GetConstellation(modTag)) :
                          /\ stage.decisions[i] = GetConstellation(modTag)[k]
                          /\ \A j \in 1..Len(GetConstellation(modTag)) :
                                 Abs2(CSub(stage.symbols[i],
                                           GetConstellation(modTag)[k]))
                                 <= Abs2(CSub(stage.symbols[i],
                                              GetConstellation(modTag)[j]))
        /\ pcDemod >= 8 =>
               /\ stage.evm = Evm(stage.symbols, stage.decisions)
               /\ runs[Len(runs)].symbols = stage.symbols

\* A call that has run all eight stages on a block with a frequency offset,
\* where no stage returns its input unchanged.
AllStagesRanWitness ==
    /\ est = "pipeline"
    /\ pcDemod = 8
    /\ stage.cfo # 0
    /\ stage.corrected # block
    /\ stage.carrier # stage.filtered
    /\ Len(stage.symbols) >= 2
    /\ stage.decisions # stage.symbols
    /\ stage.evm.sum > 0

\* C18: whatever the modulation tag of the pipeline, its Costas stage runs in
\* BPSK mode if and only if the tag begins with "bpsk", and in QPSK mode
\* otherwise.
CostasModeFollowsPrefix ==
    (est = "pipeline" /\ pcDemod >= 5)
    => /\ stage.mode \in {TagBpsk, TagQpsk}
       /\ stage.mode = TagBpsk <=> StartsWith(modTag, TagBpsk)

\* C19: two successive calls with the same block on the same estimator object
\* (CostasLoop.process, costas_loop.CostasLoop.process_signal, gardner_ted,
\* mueller_muller_ted, demodulate) return identical outputs.
SecondRunEqualsFirst ==
    \A k \in 2..Len(runs) : runs[k] = runs[1]

-----------------------------------------------------------------------------
(* The statistics *)

\* C26: in every state of the service requests_total = requests_success +
\* requests_failed, and no step (request, cleanup, shutdown) makes
\* requests_total, requests_success, requests_failed or bytes_processed
\* smaller.
CountersAddUpAndNeverDecrease ==
    /\ [](stats.total = stats.success + stats.failed)
    /\ [][/\ stats'.total >= stats.total
          /\ stats'.success >= stats.success
          /\ stats'.failed >= stats.failed
          /\ stats'.bytes >= stats.bytes]_vars

\* The service has shut down after one request that succeeded on a block and
\* one that failed.
CountersWitness ==
    /\ stats.success = 1
    /\ stats.failed = 1
    /\ stats.bytes > 0
    /\ pcRun = "done"


\* C27: every response of handle_request that contains an error field is
\* counted as a failure: requests_failed grows by one, requests_success and
\* bytes_processed stay as they were; 'Missing IQ data' included.
ErrorResponsesCountAsFailures ==
    [][(DispatchStep /\ pcRun' = "send" /\ HasError(resp'))
       => /\ stats'.failed = stats.failed + 1
          /\ stats'.success = stats.success
          /\ stats'.bytes = stats.bytes]_vars


\* A shutdown (of the run task or of a signal's task) leaves its await in
\* this step and goes on to the release steps.
ReleaseStep ==
    \/ pcRun \in {"sd_start", "sd_await"} /\ pcRun' \in {"done", "crashed"}
    \/ \E i \in 1..MaxSignals :
          sdTask[i] \in {"start", "await"} /\ sdTask'[i] \in {"done", "failed"}

\* Some shutdown has already called processor.cleanup(): it ended, and not by
\* the awaited cleanup task's own exception.
CleanupCalled ==
    /\ cleanupTask # "failed"
    /\ \E i \in 1..MaxSignals : sdTask[i] \in {"done", "failed"}

\* C28: whatever the interleaving of the shutdown task a signal starts with
\* the service loop, processor.cleanup(), socket.close() and context.term()
\* each run at most once: no shutdown reaches its release steps after
\* another has called cleanup(), closed the socket or terminated the context.
ReleaseRunsOnce ==
    [][(ReleaseStep /\ cleanupTask # "failed")
       => /\ ~CleanupCalled
          /\ socket # "closed"
          /\ context # "terminated"]_vars


\* The advances of the sample cursor in the last timing loop run.
CursorAdvances == {trace[j + 1] - trace[j] : j \in 1..(Len(trace) - 1)}

\* C23: in the Gardner and the Mueller-Muller loop, whatever the timing
\* errors and the value of the integrator, the cursor starts at SpS/2 and
\* every advance of it is at least SpS/2 and at most 3*SpS/2.
TimingStepClamped ==
    (est \in {"gardner", "mueller_muller"} /\ runs # <<>>)
    => /\ 2 * trace[1] = Sps
       /\ \A d \in CursorAdvances : Sps <= 2 * d /\ 2 * d <= 3 * Sps

\* A Gardner loop in which both clamps acted.
BothClampsWitness ==
    /\ est = "gardner"
    /\ runs # <<>>
    /\ Sps \div 2 \in CursorAdvances
    /\ (3 * Sps) \div 2 \in CursorAdvances

\* C29: for every block of length n the Gardner and the Mueller-Muller loop
\* end, with the cursor past n - SpS - 2; the cursor grows by at least SpS/2
\* in every iteration; at most ceil(2n/SpS) symbols are produced; an empty
\* block produces no symbol and no iteration reads a sample of it.
TimingLoopsEnd ==
    (est \in {"gardner", "mueller_muller"} /\ runs # <<>>)
    => LET n == Len(block)
           symbols == runs[Len(runs)].symbols
       IN /\ Len(trace) = Len(symbols) + 1
          /\ trace[Len(trace)] >= n - Sps - 2
          /\ \A j \in 1..Len(symbols) : trace[j] < n - Sps - 2
          /\ \A d \in CursorAdvances : 2 * d >= Sps
          /\ Len(symbols) <= (2 * n + Sps - 1) \div Sps
          /\ n = 0 => symbols = <<>> /\ trace = <<Sps \div 2>>

\* The Mueller-Muller loop was called on the empty block.
EmptyBlockWitness ==
    /\ est = "mueller_muller"
    /\ block = <<>>
    /\ Len(runs) = 1


-----------------------------------------------------------------------------
(* The carrier loops *)

\* C24: in both Costas loops (CostasLoop.process of the pipeline module and
\* the loop filter of costas_loop) the tracked frequency is within
\* [-0.5, 0.5] after every update.
FrequencyStaysClamped ==
    /\ (est = "costas" /\ runs # <<>>)
       => \A j \in 1..Len(block) :
              AbsInt(runs[Len(runs)].freq_traj[j]) <= MaxFreq
    /\ (est = "costas_loop" /\ runs # <<>>)
       => \A j \in 1..Len(block) :
              AbsInt(runs[Len(runs)].frequencies[j]) <= MaxFreq


\* The windows of WindowSize successive phase errors of the last call that
\* have variance below the threshold, by the index of their first sample;
\* the last one, the final WindowSize errors, included.
LowWindows ==
    LET e == runs[Len(runs)].phase_errors
    IN {s \in 0..(Len(e) - WindowSize) :
           LowVariance(SubSeq(e, s + 1, s + WindowSize))}

\* C25: process_signal reports a lock exactly when some window of successive
\* phase errors, the final one included, has variance below 0.1; the lock
\* time is the index of the first sample of the first such window; a block
\* shorter than the window never locks.
LockIffLowWindow ==
    (est = "costas_loop" /\ runs # <<>>)
    => LET r == runs[Len(runs)]
       IN /\ r.lock_detected <=> LowWindows # {}
          /\ r.lock_detected
             => /\ r.lock_time_samples \in LowWindows
                /\ \A s \in LowWindows : r.lock_time_samples <= s
          /\ Len(r.phase_errors) < WindowSize => ~r.lock_detected


-----------------------------------------------------------------------------
(* The responses on the wire *)

\* C21: in every JSON response the service sends, each non-finite number a
\* kernel produced, at any nesting depth, is written as null, and the text
\* holds no NaN or Infinity token.
NonFiniteSentAsNull ==
    procCall.op = "send_json"
    => /\ \A k \in 1..Len(procCall.text) :
              procCall.text[k] \notin {"NaN", "Infinity", "-Infinity"}
       /\ procCall.text
              = Dumps(SanitizeForJson(procCall.array,
                                      ResultDepth(procCall.command)),
                      ResultDepth(procCall.command))


-----------------------------------------------------------------------------
(* The axes of the time-frequency results *)

\* C22: in the FAM result the magnitude map and the spectral axis are in the
\* same DC-centred bin order: column j of scf_magnitude holds the bin whose
\* frequency is spectral_freqs[j], and the DC bin is at column nfft/2 (from
\* 0), where spectral_freqs is 0.
FamAxesAgree ==
    (procCall.op \in {"fam_scf", "compute_fam"} /\ procCall.exc = NoExc)
    => /\ procCall.columns = procCall.spectral_freqs
       /\ procCall.columns[procCall.nfft \div 2 + 1] = 0
       /\ procCall.spectral_freqs[procCall.nfft \div 2 + 1] = 0


\* C30: for every block with no time index t, nfft/2 <= t < N - nfft/2
\* (N = 0 and N < 4 with the default number of time points included),
\* wigner_ville and choi_williams return the 1 x nfft matrix of zeros with
\* a time axis of one entry, and do not raise.  Stated for the backend
\* whose kernels get past stream_context.
EmptyTimeAxisGivesZeros ==
    (/\ procCall.op \in {"wvd", "cwd"}
     /\ "n" \in DOMAIN procCall
     /\ backend = "gpu"
     /\ procCall.n - procCall.nfft \div 2 <= procCall.nfft \div 2)
    => /\ procCall.exc = NoExc
       /\ procCall.shape = <<1, procCall.nfft>>
       /\ procCall.values = "zeros"
       /\ Len(procCall.time_axis) = 1

====
